---- MODULE Spec2Model ----
(***************************************************************************)
(* A model of the concurrent website mirror (package mirror, MirrorParams):*)
(* Mirror, ProcessUrlWrapper and the ProcessUrl goroutines with their      *)
(* shared state (visited map, currentDepth, semaphore channel, WaitGroup,  *)
(* output tree), together with the pure path mapper they call.             *)
(*                                                                         *)
(* Strings are atomic in TLA+, so a URL is a record and a path is a        *)
(* sequence of segments ("/a/b.png" is << <<"a">>, <<"b","png">> >>): a    *)
(* segment is the sequence of its dot-separated parts.  The empty path ""  *)
(* is << >> and "/" is << E >>, so Len(path) is the number of slashes.     *)
(***************************************************************************)
EXTENDS Integers, Sequences, FiniteSets, Bags, TLC

VARIABLES
    scn,            \* the run's input and environment: MirrorParams fields, the site, the faults
    mirror,         \* Mirror()/ProcessUrlWrapper(): [pc, err]
    visited,        \* m.visited (sync.Map), as the set of stored keys
    currentDepth,   \* m.currentDepth
    sem,            \* number of tokens in the channel sem
    wg,             \* the WaitGroup counter
    tasks,          \* bag of live ProcessUrl goroutines [url, pc, i, held, out]
    files,          \* regular files under OutputDir: path -> content
    dirs,           \* directories under OutputDir
    gets,           \* history: bag of the resources an HTTP GET was issued for
    hist,           \* history: [spawned, finished, failed, refused, writes, parents]
    calc            \* a call of a pure function on its own: [op, url, out]

vars == <<scn, mirror, visited, currentDepth, sem, wg, tasks, files, dirs, gets, hist, calc>>

---------------------------------------------------------------------------
(* Sequences and strings *)

E == <<>>
Dot == <<"", "">>
DotDot == <<"", "", "">>

Last(s) == s[Len(s)]
Front(s) == SubSeq(s, 1, Len(s) - 1)

\* strings.ToLower over the names the model uses
Lower(s) ==
    CASE s = "PNG" -> "png"
      [] s = "API" -> "api"
      [] s = "Private" -> "private"
      [] s = "LOGO" -> "logo"
      [] s = "HTML" -> "html"
      [] OTHER -> s

LowerSeg(seg) == [k \in 1..Len(seg) |-> Lower(seg[k])]

\* the names strconv.Atoi accepts
NumericNames == {"123", "42", "2024", "0", "-1"}

\* a is a proper string prefix of b, over the names the model uses
ProperNamePrefix(a, b) ==
    \/ a = "" /\ b # ""
    \/ <<a, b>> \in {<<"priv", "private">>, <<"private", "privateer">>,
                     <<"priv", "privateer">>, <<"a", "about">>, <<"j", "js">>}

\* strings.HasPrefix(b, a) for segments written as dot-separated parts
SegHasPrefix(b, a) ==
    \/ a = E
    \/ /\ Len(a) <= Len(b)
       /\ \A k \in 1..(Len(a) - 1) : a[k] = b[k]
       /\ \/ a[Len(a)] = b[Len(a)]
          \/ ProperNamePrefix(a[Len(a)], b[Len(a)])

---------------------------------------------------------------------------
(* URLs *)

MkURL(h, p, q, f) == [scheme |-> "https", host |-> h, path |-> p, query |-> q, frag |-> f]

\* cleanURL := *parsedURL; Fragment = ""; RawQuery = ""; cleanURL.String()
urlKey(u) == [u EXCEPT !.frag = "", !.query = ""]

\* what an HTTP GET names on the server: the fragment is never sent
Resource(u) == [u EXCEPT !.frag = ""]

\* a string url.Parse rejects ("://x": missing protocol scheme)
Malformed(p) == [scheme |-> ":", host |-> "", path |-> p, query |-> "", frag |-> ""]

\* url.Parse(urlStr) returns an error
urlParseFails(u) == u.scheme = ":"

---------------------------------------------------------------------------
(* Path mapper *)

RECURSIVE CleanAcc(_, _)
CleanAcc(segs, acc) ==
    IF segs = <<>> THEN acc
    ELSE LET s == Head(segs) IN
         IF s = E \/ s = Dot THEN CleanAcc(Tail(segs), acc)
         ELSE IF s = DotDot
              THEN IF acc # <<>> /\ Last(acc) # DotDot
                   THEN CleanAcc(Tail(segs), Front(acc))
                   ELSE CleanAcc(Tail(segs), Append(acc, DotDot))
              ELSE CleanAcc(Tail(segs), Append(acc, s))

\* filepath.Join: concatenate the elements and Clean the result
Join(segs) == CleanAcc(segs, <<>>)

HostSeg(h) == IF h = "" THEN E ELSE <<h>>

IndexHtml == <<"index", "html">>

\* filepath.Ext of one path element is non-empty iff the element holds a dot
hasFileExtension(seg) == Len(seg) >= 2

isNumeric(seg) == Len(seg) = 1 /\ seg[1] \in NumericNames

hasNumericID(path) == \E k \in 1..Len(path) : isNumeric(path[k])

dynamicParts ==
    {"api", "v1", "v2", "v3", "blob", "tree", "branch", "tag",
     "commit", "pull", "issues", "wiki", "raw", "edit"}

hasDynamicParts(parts) ==
    \E k \in 1..Len(parts) : Len(parts[k]) = 1 /\ Lower(parts[k][1]) \in dynamicParts

\* strings.Split(strings.TrimPrefix(cleanPath, "/"), "/")
SplitPath(path) == IF path = <<>> THEN <<E>> ELSE path

convertToLocalPath(u) ==
    LET parts == SplitPath(u.path) IN
    IF hasFileExtension(Last(parts))
    THEN Join(<<HostSeg(u.host)>> \o u.path)
    ELSE IF hasNumericID(u.path) \/ hasDynamicParts(parts)
    THEN Join(<<HostSeg(u.host), <<"pages">>>> \o u.path \o <<IndexHtml>>)
    ELSE LET path == Join(<<HostSeg(u.host)>> \o u.path) IN
         IF path = Join(<<HostSeg(u.host)>>) \/ path = <<>> \/ ~hasFileExtension(Last(path))
         THEN Join(path \o <<IndexHtml>>)
         ELSE path

---------------------------------------------------------------------------
(* Inputs: the MirrorParams fields and the site served to the run *)

maxDepth == 5

MaxBudget == 2

Ex(p) == MkURL("example.com", p, "", "")
ExF(p, f) == MkURL("example.com", p, "", f)
ExQ(p, q) == MkURL("example.com", p, q, "")
Other(p) == MkURL("other.org", p, "", "")

Root == <<E>>
P1(a) == <<a>>
P2(a, b) == <<a, b>>

Href(u) == [kind |-> "href", url |-> u]
StyleUrl(u) == [kind |-> "style", url |-> u]
CssUrl(u) == [kind |-> "css", url |-> u]

Page(u, st, ct, rs, ft) == [res |-> Resource(u), status |-> st, ctype |-> ct, refs |-> rs, fault |-> ft]
Html(u, rs) == Page(u, 200, "html", rs, "none")
Css(u, rs) == Page(u, 200, "css", rs, "none")
Leaf(u) == Page(u, 200, "other", <<>>, "none")

Scenario(nm, sd, pgs, bud, ex, rej, mk) ==
    [name |-> nm, seed |-> sd, pages |-> pgs, budgets |-> bud,
     ExcludePaths |-> ex, RejectTypes |-> rej, ConvertLinks |-> TRUE, mkdirOK |-> mk]

Budgets == 1..MaxBudget

\* the scenario of the specification: a page, a same-host page and image, a foreign link, a cycle
ScBasic ==
    Scenario("basic", Ex(Root),
        { Html(Ex(Root), << Href(Ex(P1(<<"about">>))), Href(Ex(P1(<<"logo", "png">>))),
                            Href(Other(P1(<<"x">>))) >>),
          Html(Ex(P1(<<"about">>)), << Href(Ex(Root)) >>),
          Leaf(Ex(P1(<<"logo", "png">>))),
          Leaf(Other(P1(<<"x">>))) },
        Budgets, {}, {}, TRUE)

\* one resource referenced twice, the references differing by fragment only
ScDup ==
    Scenario("dup", Ex(Root),
        { Html(Ex(Root), << Href(ExF(P1(<<"a", "png">>), "x")), Href(ExF(P1(<<"a", "png">>), "y")) >>),
          Leaf(Ex(P1(<<"a", "png">>))) },
        Budgets, {}, {}, TRUE)

\* two resources that differ by query string only
ScQuery ==
    Scenario("query", Ex(Root),
        { Html(Ex(Root), << Href(ExQ(P1(<<"list">>), "page=1")), Href(ExQ(P1(<<"list">>), "page=2")) >>),
          Leaf(ExQ(P1(<<"list">>), "page=1")),
          Leaf(ExQ(P1(<<"list">>), "page=2")) },
        Budgets, {}, {}, TRUE)

\* the rewritten seed page cannot be written back
ScRewriteFault ==
    Scenario("rewritefault", Ex(Root),
        { Page(Ex(Root), 200, "html", << Href(Ex(P1(<<"s", "css">>))) >>, "rewrite"),
          Css(Ex(P1(<<"s", "css">>)), << CssUrl(Ex(P1(<<"bg", "png">>))), CssUrl(Other(P1(<<"f", "woff">>))) >>),
          Leaf(Ex(P1(<<"bg", "png">>))) },
        Budgets, {}, {}, TRUE)

Pg(k) == Ex(P1(<<"p", k>>))

\* a chain of pages, the last one six link-hops from the seed
ScChain ==
    Scenario("chain", Ex(Root),
        { Html(Ex(Root), << Href(Pg("1")) >>),
          Html(Pg("1"), << Href(Pg("2")) >>),
          Html(Pg("2"), << Href(Pg("3")) >>),
          Html(Pg("3"), << Href(Pg("4")) >>),
          Html(Pg("4"), << Href(Pg("5")) >>),
          Html(Pg("5"), << Href(Pg("6")) >>),
          Leaf(Pg("6")) },
        Budgets, {}, {}, TRUE)

\* filtered references: /js/, an excluded directory, a rejected type, analytics
ScFilters ==
    Scenario("filters", Ex(Root),
        { Html(Ex(Root), << Href(Ex(P2(<<"js">>, <<"app", "js">>))),
                            Href(Ex(P2(<<"private">>, <<"x">>))),
                            Href(Ex(P1(<<"doc", "pdf">>))),
                            Href(Ex(P1(<<"analytics", "js">>))),
                            StyleUrl(Ex(P1(<<"bg", "png">>))) >>),
          Leaf(Ex(P2(<<"js">>, <<"app", "js">>))),
          Leaf(Ex(P2(<<"private">>, <<"x">>))),
          Leaf(Ex(P1(<<"doc", "pdf">>))),
          Leaf(Ex(P1(<<"analytics", "js">>))),
          Leaf(Ex(P1(<<"bg", "png">>))) },
        Budgets, { <<E, <<"private">>, E>> }, { <<"pdf">> }, TRUE)

\* per-resource failures before anything is written
ScFetchFaults ==
    Scenario("fetchfaults", Ex(Root),
        { Html(Ex(Root), << Href(Ex(P1(<<"down">>))), Href(Ex(P1(<<"gone">>))),
                            Href(Ex(P1(<<"cut">>))), Href(Ex(P1(<<"ok">>))) >>),
          Page(Ex(P1(<<"down">>)), 200, "html", <<>>, "transport"),
          Page(Ex(P1(<<"gone">>)), 404, "html", <<>>, "none"),
          Page(Ex(P1(<<"cut">>)), 200, "html", <<>>, "read"),
          Html(Ex(P1(<<"ok">>)), <<>>) },
        Budgets, {}, {}, TRUE)

\* per-resource failures of the output tree and of the HTML parser
ScSaveFaults ==
    Scenario("savefaults", Ex(Root),
        { Html(Ex(Root), << Href(Ex(P1(<<"nodir">>))), Href(Ex(P1(<<"nowrite">>))),
                            Href(Ex(P1(<<"bad">>))) >>),
          Page(Ex(P1(<<"nodir">>)), 200, "html", <<>>, "mkdir"),
          Page(Ex(P1(<<"nowrite">>)), 200, "html", <<>>, "write"),
          Page(Ex(P1(<<"bad">>)), 200, "html", <<>>, "parse") },
        Budgets, {}, {}, TRUE)

\* per-resource failures of the HTML renderer and of the write of a rewritten stylesheet
ScRenderFaults ==
    Scenario("renderfaults", Ex(Root),
        { Html(Ex(Root), << Href(Ex(P1(<<"norender">>))), Href(Ex(P1(<<"t", "css">>))) >>),
          Page(Ex(P1(<<"norender">>)), 200, "html", <<>>, "render"),
          Page(Ex(P1(<<"t", "css">>)), 200, "css", <<>>, "rewrite") },
        Budgets, {}, {}, TRUE)

\* many pages in flight at once: the default budget of 100000 never throttles a small site,
\* so this site runs with the smallest budget that does not throttle it
ScDeep ==
    Scenario("deep", Ex(Root),
        { Html(Ex(Root), << Href(Pg("1")) >>),
          Html(Pg("1"), << Href(Pg("2")) >>),
          Html(Pg("2"), << Href(Pg("3")) >>),
          Html(Pg("3"), << Href(Pg("4")) >>),
          Html(Pg("4"), << Href(Pg("5")), Href(Ex(P1(<<"b", "png">>))) >>),
          Leaf(Pg("5")),
          Leaf(Ex(P1(<<"b", "png">>))) },
        {maxDepth + 2}, {}, {}, TRUE)

\* os.MkdirAll(m.OutputDir) fails
ScNoRoot ==
    Scenario("noroot", Ex(Root), { Html(Ex(Root), <<>>) }, Budgets, {}, {}, FALSE)

\* the seed handed to GetMirrorParams does not parse
ScBadSeed ==
    Scenario("badseed", Malformed(P1(<<"x">>)), {}, Budgets, {}, {}, TRUE)

\* names that differ from the filters' entries by case only; a rejected page with children,
\* one of them a reference that does not parse
ScCase ==
    Scenario("case", Ex(Root),
        { Html(Ex(Root), << Href(Ex(P2(<<"Private">>, <<"x">>))),
                            Href(Ex(P1(<<"LOGO", "PNG">>))),
                            Href(Ex(P1(<<"old", "HTML">>))) >>),
          Leaf(Ex(P2(<<"Private">>, <<"x">>))),
          Leaf(Ex(P1(<<"LOGO", "PNG">>))),
          Html(Ex(P1(<<"old", "HTML">>)), << Href(Malformed(P1(<<"x">>))),
                                             Href(Ex(P1(<<"new", "css">>))) >>),
          Css(Ex(P1(<<"new", "css">>)), <<>>) },
        Budgets, { <<E, <<"private">>>> }, { <<"png">>, <<"html">> }, TRUE)

\* a page answered with 203 Non-Authoritative Information, and a file that is neither HTML
\* nor CSS but holds a url(...)
ScStatus ==
    Scenario("status", Ex(Root),
        { Html(Ex(Root), << Href(Ex(P1(<<"accepted">>))), Href(Ex(P1(<<"pic", "svg">>))) >>),
          Page(Ex(P1(<<"accepted">>)), 203, "html", << Href(Ex(P1(<<"under", "png">>))) >>, "none"),
          Page(Ex(P1(<<"pic", "svg">>)), 200, "other", << CssUrl(Ex(P1(<<"inner", "png">>))) >>, "none"),
          Leaf(Ex(P1(<<"under", "png">>))),
          Leaf(Ex(P1(<<"inner", "png">>))) },
        Budgets, {}, {}, TRUE)

\* a dynamic route and a static file under pages/
ScCollide ==
    Scenario("collide", Ex(Root),
        { Html(Ex(Root), << Href(Ex(P1(<<"42">>))),
                            Href(Ex(<< <<"pages">>, <<"42">>, IndexHtml >>)) >>),
          Leaf(Ex(P1(<<"42">>))),
          Leaf(Ex(<< <<"pages">>, <<"42">>, IndexHtml >>)) },
        Budgets, {}, {}, TRUE)

\* a run without link conversion: same-host and foreign references in attributes, in
\* inline styles and in a stylesheet, the page itself one directory down
ScAbs ==
    [ Scenario("abs", Ex(P2(<<"docs">>, <<"guide">>)),
        { Html(Ex(P2(<<"docs">>, <<"guide">>)),
               << Href(Ex(P1(<<"logo", "png">>))), Href(Other(P1(<<"x">>))),
                  StyleUrl(Other(P1(<<"bg", "png">>))), StyleUrl(Ex(P1(<<"logo", "png">>))),
                  Href(Ex(P1(<<"s", "css">>))) >>),
          Leaf(Ex(P1(<<"logo", "png">>))),
          Css(Ex(P1(<<"s", "css">>)), << CssUrl(Other(P1(<<"f", "woff">>))),
                                         CssUrl(Ex(P1(<<"logo", "png">>))) >>) },
        Budgets, {}, {}, TRUE)
      EXCEPT !.ConvertLinks = FALSE ]

\* the same site mirrored with link conversion
ScRel == [ScAbs EXCEPT !.name = "rel", !.ConvertLinks = TRUE]

Scenarios ==
    {ScBasic, ScDup, ScQuery, ScRewriteFault, ScChain, ScFilters, ScFetchFaults, ScSaveFaults,
     ScDeep, ScNoRoot, ScBadSeed, ScCase, ScStatus, ScCollide, ScAbs, ScRel, ScRenderFaults}

\* fields of MirrorParams
baseHost == scn.seed.host
MaxConcurrent == scn.budget

NotFound(r) == Page(r, 404, "other", <<>>, "none")

\* what the server answers for resource r
PageOf(r) ==
    IF \E p \in scn.pages : p.res = r
    THEN CHOOSE p \in scn.pages : p.res = r
    ELSE NotFound(r)

---------------------------------------------------------------------------
(* ProcessUrl: the checks made on the URL before the request *)

\* every host passes for the seed's
hostMatchesAny(h) == TRUE

\* the comparison of a host with m.baseHost
hostMatches(h) == h = baseHost

\* if parsedURL.Host != "" && parsedURL.Host != m.baseHost
isExternal(u) == u.host # "" /\ ~hostMatches(u.host)

\* no path is under /js/
underJsNever(path) == FALSE

\* strings.Contains(parsedURL.Path, "/js/")
underJs(path) == \E k \in 1..(Len(path) - 1) : path[k] = <<"js">>

RECURSIVE TrimLeft(_)
TrimLeft(p) == IF p # <<>> /\ Head(p) = E THEN TrimLeft(Tail(p)) ELSE p

RECURSIVE TrimRight(_)
TrimRight(p) == IF p # <<>> /\ Last(p) = E THEN TrimRight(Front(p)) ELSE p

\* strings.Trim(path, "/")
TrimSlashes(p) == TrimRight(TrimLeft(p))

\* strings.HasPrefix(normalizedPath, normalizedExclude)
PathHasPrefix(p, e) ==
    \/ e = <<>>
    \/ /\ Len(e) <= Len(p)
       /\ \A k \in 1..(Len(e) - 1) : e[k] = p[k]
       /\ SegHasPrefix(p[Len(e)], e[Len(e)])

isExcluded(u) ==
    \E ex \in scn.ExcludePaths : PathHasPrefix(TrimSlashes(u.path), TrimSlashes(ex))

\* filepath.Base(parsedURL.Path), "" and "/" replaced by index.html
fileName(path) ==
    IF path = <<>> THEN Dot
    ELSE IF TrimRight(path) = <<>> THEN IndexHtml
    ELSE Last(TrimRight(path))

\* strings.TrimPrefix(strings.ToLower(filepath.Ext(parsedURL.Path)), "."), <<>> when there is none
extOf(path) ==
    IF path # <<>> /\ hasFileExtension(Last(path)) THEN <<Lower(Last(Last(path)))>> ELSE <<>>

\* no file is ever kept from the disk
shouldSaveAlways(u) == TRUE

shouldSaveFile(u) ==
    /\ \A rej \in scn.RejectTypes : LowerSeg(fileName(u.path)) # LowerSeg(rej)
    /\ \A rej \in scn.RejectTypes : extOf(u.path) = <<>> \/ extOf(u.path) # LowerSeg(rej)

\* strings.Contains(absURL.String(), "google-analytics.com") || ... "analytics.js"
isAnalytics(u) ==
    \/ u.host = "google-analytics.com"
    \/ \E k \in 1..Len(u.path) : u.path[k] = <<"analytics", "js">>

---------------------------------------------------------------------------
(* The output tree *)

Prefixes(p) == {SubSeq(p, 1, k) : k \in 0..Len(p)}

\* os.MkdirAll(dir) fails when an element of dir exists as a regular file
mkdirBlocked(dir) == \E q \in Prefixes(dir) : q \in DOMAIN files

\* the directories os.MkdirAll(dir) leaves behind: the parents of the first regular file on
\* the way, all of dir when there is none
mkdirMade(dir) ==
    {q \in Prefixes(dir) : \A r \in Prefixes(q) : r \notin DOMAIN files}

\* outputPath, lines 909-917: the mapped path, index.html appended when it is a directory
outputPathOf(u) ==
    LET p0 == Join(convertToLocalPath(u))
        p1 == IF p0 = <<>> THEN <<IndexHtml>> ELSE p0
    IN IF p1 \in dirs THEN Append(p1, IndexHtml) ELSE p1

\* filepath.Rel(base, targ) for clean relative paths; "none" when Rel returns an error
RECURSIVE Rel(_, _)
Rel(base, targ) ==
    IF base # <<>> /\ targ # <<>> /\ Head(base) = Head(targ) THEN Rel(Tail(base), Tail(targ))
    ELSE IF \E k \in 1..Len(base) : base[k] = DotDot THEN "none"
    ELSE IF base = <<>> /\ targ = <<>> THEN <<Dot>>
    ELSE [k \in 1..Len(base) |-> DotDot] \o targ

\* a name that holds a backslash ("d\e"), and the two names either side of it
BackslashName == "d\\e"
SplitBackslash(seg) ==
    IF seg # E /\ seg[1] = BackslashName
    THEN << <<"d">>, <<"e">> \o Tail(seg) >>
    ELSE <<seg>>

\* strings.ReplaceAll(rel, "\\", "/"): on a system whose separator is "/" a backslash is part
\* of a name, and replacing it cuts the name in two
RECURSIVE ReplaceBackslashes(_)
ReplaceBackslashes(p) ==
    IF p = <<>> THEN <<>> ELSE SplitBackslash(Head(p)) \o ReplaceBackslashes(Tail(p))

\* the value of a reference in a stored body: the text the page was served with, the
\* string of the resolved URL, a relative path, or "/" followed by a local path
Written(ref) == [as |-> "written", url |-> ref.url]
Absolute(u) == [as |-> "absolute", url |-> u]
Relative(p) == [as |-> "relative", path |-> p]
Rooted(p) == [as |-> "rooted", path |-> p]

\* the path of the target below the output directory is taken for the relative one
getRelativePathFromRoot(base, ref) == Relative(convertToLocalPath(ref))

getRelativePath(base, ref) ==
    IF (ref.scheme # "" \/ ref.host # "") /\ ref.host # base.host
    THEN Absolute(ref)
    ELSE LET localPath == convertToLocalPath(ref)
             baseDir == Front(convertToLocalPath(base))
             rel == Rel(baseDir, localPath)
         IN IF rel = "none" THEN Rooted(localPath) ELSE Relative(ReplaceBackslashes(rel))

\* every reference is rewritten as if it were on the seed's host
rewriteRefAnyHost(base, ref) ==
    IF scn.ConvertLinks
    THEN Relative(Rel(Front(convertToLocalPath(base)), convertToLocalPath(ref.url)))
    ELSE Absolute(ref.url)

\* what processNode and the CSS branch leave in the body for one reference
rewriteRef(base, ref) ==
    IF urlParseFails(ref.url) THEN Written(ref)
    ELSE IF ref.kind = "href"
    THEN IF isAnalytics(ref.url) \/ ~hostMatches(ref.url.host) THEN Written(ref)
         ELSE IF scn.ConvertLinks THEN getRelativePath(base, ref.url)
         ELSE Absolute(ref.url)
    ELSE IF hostMatches(ref.url.host) /\ scn.ConvertLinks
         THEN getRelativePath(base, ref.url)
         ELSE Written(ref)

\* the bytes of a file: the response body as served ("raw"), or the document or stylesheet
\* with its references rewritten ("rewritten")
Content(u, form) == [res |-> Resource(u), form |-> form]

\* the values of the references in those bytes, in the order of the page
ValsOf(c) ==
    LET refs == PageOf(c.res).refs IN
    [k \in 1..Len(refs) |-> IF c.form = "raw" THEN Written(refs[k]) ELSE rewriteRef(c.res, refs[k])]

\* one os.WriteFile that succeeded
Wrote(out, u, form) == [path |-> out, body |-> Content(u, form)]

---------------------------------------------------------------------------
(* State *)

Task(u) == [url |-> u, pc |-> "acquire", i |-> 0, held |-> 0, out |-> <<>>]

Live == BagToSet(tasks)

Become(t, t2) == (tasks (-) SetToBag({t})) (+) SetToBag({t2})

\* the Add for a child goroutine is lost
wgAddSeedOnly(w, n) == IF n > 0 /\ w > 0 THEN w ELSE w + n

\* wg.Add(n)
wgAdd(w, n) == w + n

Run(sc, b) ==
    [name |-> sc.name, seed |-> sc.seed, pages |-> sc.pages, budget |-> b,
     ExcludePaths |-> sc.ExcludePaths, RejectTypes |-> sc.RejectTypes,
     ConvertLinks |-> sc.ConvertLinks, mkdirOK |-> sc.mkdirOK]

\* the state main starts the run in
Start(run) ==
    /\ scn = run
    /\ mirror = [pc |-> "new", err |-> FALSE]
    /\ visited = {}
    /\ currentDepth = 0
    /\ sem = 0
    /\ wg = 0
    /\ tasks = EmptyBag
    /\ files = <<>>
    /\ dirs = {}
    /\ gets = EmptyBag
    /\ hist = [spawned |-> 0, finished |-> 0, failed |-> {}, refused |-> {},
               writes |-> EmptyBag, parents |-> {}]

NoCall == [op |-> "none"]

Init ==
    /\ \E sc \in Scenarios : \E b \in sc.budgets : Start(Run(sc, b))
    /\ calc = NoCall

---------------------------------------------------------------------------
(* GetMirrorParams, Mirror and ProcessUrlWrapper *)

\* the parse error of the seed is dropped and the parameters are built all the same
GetMirrorParamsLenient ==
    /\ mirror.pc = "new"
    /\ urlParseFails(scn.seed)
    /\ mirror' = [mirror EXCEPT !.pc = "mkdir"]
    /\ UNCHANGED <<calc, scn, visited, currentDepth, sem, wg, tasks, files, dirs, gets, hist>>

\* url.Parse(urlStr) fails: GetMirrorParams returns nil and main exits with status 1
GetMirrorParamsNil ==
    /\ mirror.pc = "new"
    /\ urlParseFails(scn.seed)
    /\ mirror' = [pc |-> "refused", err |-> TRUE]
    /\ UNCHANGED <<calc, scn, visited, currentDepth, sem, wg, tasks, files, dirs, gets, hist>>

\* the seed parses: the parameters are built and main calls Mirror
GetMirrorParams ==
    /\ mirror.pc = "new"
    /\ ~urlParseFails(scn.seed)
    /\ mirror' = [mirror EXCEPT !.pc = "mkdir"]
    /\ UNCHANGED <<calc, scn, visited, currentDepth, sem, wg, tasks, files, dirs, gets, hist>>

\* the error of os.MkdirAll is dropped and the run goes on
MirrorMkdirIgnored ==
    /\ mirror.pc = "mkdir"
    /\ ~scn.mkdirOK
    /\ wg' = wg + 1
    /\ tasks' = tasks (+) SetToBag({Task(scn.seed)})
    /\ hist' = [hist EXCEPT !.spawned = @ + 1]
    /\ mirror' = [mirror EXCEPT !.pc = "wait"]
    /\ UNCHANGED <<calc, scn, visited, currentDepth, sem, files, dirs, gets>>

\* os.MkdirAll(m.OutputDir) fails: return the error
MirrorMkdirFail ==
    /\ mirror.pc = "mkdir"
    /\ ~scn.mkdirOK
    /\ mirror' = [pc |-> "returned", err |-> TRUE]
    /\ UNCHANGED <<calc, scn, visited, currentDepth, sem, wg, tasks, files, dirs, gets, hist>>

\* the directory exists; ProcessUrlWrapper: wg.Add(1); go m.ProcessUrl(urlStr, &wg, sem)
MirrorStart ==
    /\ mirror.pc = "mkdir"
    /\ scn.mkdirOK
    /\ dirs' = dirs \cup {<<>>}
    /\ wg' = wgAdd(wg, 1)
    /\ tasks' = tasks (+) SetToBag({Task(scn.seed)})
    /\ hist' = [hist EXCEPT !.spawned = @ + 1]
    /\ mirror' = [mirror EXCEPT !.pc = "wait"]
    /\ UNCHANGED <<calc, scn, visited, currentDepth, sem, files, gets>>

\* wg.Wait() returns; return nil
MirrorReturn ==
    /\ mirror.pc = "wait"
    /\ wg = 0
    /\ mirror' = [pc |-> "returned", err |-> FALSE]
    /\ UNCHANGED <<calc, scn, visited, currentDepth, sem, wg, tasks, files, dirs, gets, hist>>

---------------------------------------------------------------------------
(* ProcessUrl, one action per step between accesses to shared state *)

Fail(u) == [hist EXCEPT !.failed = @ \cup {Resource(u)}]

\* sem <- struct{}{}
Acquire(t) ==
    /\ t.pc = "acquire"
    /\ sem < MaxConcurrent
    /\ sem' = sem + 1
    /\ tasks' = Become(t, [t EXCEPT !.pc = "load", !.held = @ + 1])
    /\ UNCHANGED <<calc, scn, mirror, visited, currentDepth, wg, files, dirs, gets, hist>>

\* m.visited.Load(urlKey): found, return
LoadHit(t) ==
    /\ t.pc = "load"
    /\ urlKey(t.url) \in visited
    /\ tasks' = Become(t, [t EXCEPT !.pc = "release"])
    /\ UNCHANGED <<calc, scn, mirror, visited, currentDepth, sem, wg, files, dirs, gets, hist>>

\* m.visited.Load(urlKey): not found
LoadMiss(t) ==
    /\ t.pc = "load"
    /\ urlKey(t.url) \notin visited
    /\ tasks' = Become(t, [t EXCEPT !.pc = "store"])
    /\ UNCHANGED <<calc, scn, mirror, visited, currentDepth, sem, wg, files, dirs, gets, hist>>

\* m.visited.Store(urlKey, true)
Store(t) ==
    /\ t.pc = "store"
    /\ visited' = visited \cup {urlKey(t.url)}
    /\ tasks' = Become(t, [t EXCEPT !.pc = "depth"])
    /\ UNCHANGED <<calc, scn, mirror, currentDepth, sem, wg, files, dirs, gets, hist>>

\* if m.currentDepth > m.maxDepth
depthExceeded(depth) == depth > maxDepth

\* under depthMutex: currentDepth > maxDepth, return
DepthExceeded(t) ==
    /\ t.pc = "depth"
    /\ depthExceeded(currentDepth)
    /\ tasks' = Become(t, [t EXCEPT !.pc = "release"])
    /\ UNCHANGED <<calc, scn, mirror, visited, currentDepth, sem, wg, files, dirs, gets, hist>>

\* under depthMutex: currentDepth++, and the decrement is deferred
DepthEnter(t) ==
    /\ t.pc = "depth"
    /\ ~depthExceeded(currentDepth)
    /\ currentDepth' = currentDepth + 1
    /\ tasks' = Become(t, [t EXCEPT !.pc = "fetch"])
    /\ UNCHANGED <<calc, scn, mirror, visited, sem, wg, files, dirs, gets, hist>>

\* the URL is rejected before the request: foreign host, /js/, excluded path
skipsRequest(u) == isExternal(u) \/ underJs(u.path) \/ isExcluded(u)

SkipUrl(t) ==
    /\ t.pc = "fetch"
    /\ skipsRequest(t.url)
    /\ tasks' = Become(t, [t EXCEPT !.pc = "leaveDepth"])
    /\ UNCHANGED <<calc, scn, mirror, visited, currentDepth, sem, wg, files, dirs, gets, hist>>

\* http.DefaultClient.Do fails, the status is not 200, or io.ReadAll fails
requestFails(pg) == pg.fault \in {"transport", "read"} \/ pg.status # 200

\* the response arrived and resp.StatusCode != http.StatusOK
statusRefused(pg) == pg.fault # "transport" /\ pg.status # 200

FetchFail(t) ==
    /\ t.pc = "fetch"
    /\ ~skipsRequest(t.url)
    /\ requestFails(PageOf(Resource(t.url)))
    /\ gets' = gets (+) SetToBag({Resource(t.url)})
    /\ hist' = IF statusRefused(PageOf(Resource(t.url)))
               THEN [Fail(t.url) EXCEPT !.refused = @ \cup {Resource(t.url)}]
               ELSE Fail(t.url)
    /\ tasks' = Become(t, [t EXCEPT !.pc = "leaveDepth"])
    /\ UNCHANGED <<calc, scn, mirror, visited, currentDepth, sem, wg, files, dirs>>

\* the request succeeds and the body is read
FetchOK(t) ==
    /\ t.pc = "fetch"
    /\ ~skipsRequest(t.url)
    /\ ~requestFails(PageOf(Resource(t.url)))
    /\ gets' = gets (+) SetToBag({Resource(t.url)})
    /\ tasks' = Become(t, [t EXCEPT !.pc = "save"])
    /\ UNCHANGED <<calc, scn, mirror, visited, currentDepth, sem, wg, files, dirs, hist>>

\* the document is scanned for references whether or not it could be parsed
afterSaveScansAll(t, pg, out) ==
    IF pg.ctype \in {"html", "css"}
    THEN [t EXCEPT !.pc = "links", !.i = 1, !.out = out]
    ELSE [t EXCEPT !.pc = "leaveDepth", !.out = out]

\* where the task goes once the body is on disk (or was not to be saved):
\* html that parses and css are scanned for references, anything else is finished
afterSave(t, pg, out) ==
    IF (pg.ctype = "html" /\ pg.fault # "parse") \/ pg.ctype = "css"
    THEN [t EXCEPT !.pc = "links", !.i = 1, !.out = out]
    ELSE [t EXCEPT !.pc = "leaveDepth", !.out = out]

\* shouldSaveFile is false: nothing is written
SaveSkipped(t) ==
    /\ t.pc = "save"
    /\ ~shouldSaveFile(t.url)
    /\ LET pg == PageOf(Resource(t.url)) IN
       /\ tasks' = Become(t, afterSave(t, pg, outputPathOf(t.url)))
       /\ hist' = IF pg.ctype = "html" /\ pg.fault = "parse" THEN Fail(t.url) ELSE hist
    /\ UNCHANGED <<calc, scn, mirror, visited, currentDepth, sem, wg, files, dirs, gets>>

\* os.MkdirAll(dir) or os.WriteFile(outputPath, body) fails: return
SaveFail(t) ==
    /\ t.pc = "save"
    /\ shouldSaveFile(t.url)
    /\ LET pg == PageOf(Resource(t.url))
           out == outputPathOf(t.url)
           dir == Front(out)
       IN /\ (pg.fault \in {"mkdir", "write"} \/ mkdirBlocked(dir) \/ out \in dirs)
          /\ dirs' = IF pg.fault = "mkdir" THEN dirs ELSE dirs \cup mkdirMade(dir)
          /\ tasks' = Become(t, [t EXCEPT !.pc = "leaveDepth", !.out = out])
    /\ hist' = Fail(t.url)
    /\ UNCHANGED <<calc, scn, mirror, visited, currentDepth, sem, wg, files, gets>>

\* the raw body is written to outputPath
SaveOK(t) ==
    /\ t.pc = "save"
    /\ shouldSaveFile(t.url)
    /\ LET pg == PageOf(Resource(t.url))
           out == outputPathOf(t.url)
           dir == Front(out)
       IN /\ pg.fault \notin {"mkdir", "write"}
          /\ ~mkdirBlocked(dir)
          /\ out \notin dirs
          /\ dirs' = dirs \cup mkdirMade(dir)
          /\ files' = (out :> Content(t.url, "raw")) @@ files
          /\ tasks' = Become(t, afterSave(t, pg, out))
          /\ hist' = [(IF pg.ctype = "html" /\ pg.fault = "parse" THEN Fail(t.url) ELSE hist)
                         EXCEPT !.writes = @ (+) SetToBag({Wrote(out, t.url, "raw")})]
    /\ UNCHANGED <<calc, scn, mirror, visited, currentDepth, sem, wg, gets>>

\* the reference is followed: it parses, same host, not an analytics endpoint
follows(ref) ==
    /\ ~urlParseFails(ref.url)
    /\ ~(ref.kind = "href" /\ isAnalytics(ref.url))
    /\ hostMatches(ref.url.host)

\* one reference of the page that is not followed, or whose key is already in visited
LinkPass(t) ==
    /\ t.pc = "links"
    /\ LET refs == PageOf(Resource(t.url)).refs IN
       /\ t.i <= Len(refs)
       /\ (~follows(refs[t.i]) \/ urlKey(refs[t.i].url) \in visited)
    /\ tasks' = Become(t, [t EXCEPT !.i = @ + 1])
    /\ UNCHANGED <<calc, scn, mirror, visited, currentDepth, sem, wg, files, dirs, gets, hist>>

\* one followed reference whose key is not in visited: wg.Add(1); go m.ProcessUrl(absURL.String(), wg, sem)
LinkSpawn(t) ==
    /\ t.pc = "links"
    /\ LET refs == PageOf(Resource(t.url)).refs IN
       /\ t.i <= Len(refs)
       /\ follows(refs[t.i])
       /\ urlKey(refs[t.i].url) \notin visited
       /\ wg' = wgAdd(wg, 1)
       /\ tasks' = Become(t, [t EXCEPT !.i = @ + 1]) (+) SetToBag({Task(refs[t.i].url)})
    /\ hist' = [hist EXCEPT !.spawned = @ + 1, !.parents = @ \cup {Resource(t.url)}]
    /\ UNCHANGED <<calc, scn, mirror, visited, currentDepth, sem, files, dirs, gets>>

\* the rewritten document or stylesheet cannot be rendered or written
rewriteFails(t, pg) ==
    \/ pg.ctype = "html" /\ pg.fault = "render"
    \/ pg.fault = "rewrite"
    \/ t.out \in dirs

\* every reference is processed: the rewritten body replaces the raw one
RewriteOK(t) ==
    /\ t.pc = "links"
    /\ LET pg == PageOf(Resource(t.url)) IN
       /\ t.i > Len(pg.refs)
       /\ shouldSaveFile(t.url) => ~rewriteFails(t, pg)
       /\ files' = IF shouldSaveFile(t.url)
                   THEN (t.out :> Content(t.url, "rewritten")) @@ files
                   ELSE files
       /\ hist' = IF shouldSaveFile(t.url)
                  THEN [hist EXCEPT !.writes = @ (+) SetToBag({Wrote(t.out, t.url, "rewritten")})]
                  ELSE hist
    /\ tasks' = Become(t, [t EXCEPT !.pc = "leaveDepth"])
    /\ UNCHANGED <<calc, scn, mirror, visited, currentDepth, sem, wg, dirs, gets>>

\* html.Render or os.WriteFile of the rewritten HTML fails: a token is taken from sem before the return
RewriteFailHtml(t) ==
    /\ t.pc = "links"
    /\ LET pg == PageOf(Resource(t.url)) IN
       /\ t.i > Len(pg.refs)
       /\ pg.ctype = "html"
       /\ shouldSaveFile(t.url)
       /\ rewriteFails(t, pg)
    /\ hist' = Fail(t.url)
    /\ tasks' = Become(t, [t EXCEPT !.pc = "drain"])
    /\ UNCHANGED <<calc, scn, mirror, visited, currentDepth, sem, wg, files, dirs, gets>>

\* os.WriteFile of the rewritten CSS fails: return
RewriteFailCss(t) ==
    /\ t.pc = "links"
    /\ LET pg == PageOf(Resource(t.url)) IN
       /\ t.i > Len(pg.refs)
       /\ pg.ctype = "css"
       /\ shouldSaveFile(t.url)
       /\ rewriteFails(t, pg)
    /\ hist' = Fail(t.url)
    /\ tasks' = Become(t, [t EXCEPT !.pc = "leaveDepth"])
    /\ UNCHANGED <<calc, scn, mirror, visited, currentDepth, sem, wg, files, dirs, gets>>

\* <-sem on the failure path of the rewritten HTML, lines 1057 and 1063
Drain(t) ==
    /\ t.pc = "drain"
    /\ sem > 0
    /\ sem' = sem - 1
    /\ tasks' = Become(t, [t EXCEPT !.pc = "leaveDepth", !.held = @ - 1])
    /\ UNCHANGED <<calc, scn, mirror, visited, currentDepth, wg, files, dirs, gets, hist>>

\* deferred: currentDepth-- under depthMutex
LeaveDepth(t) ==
    /\ t.pc = "leaveDepth"
    /\ currentDepth' = currentDepth - 1
    /\ tasks' = Become(t, [t EXCEPT !.pc = "release"])
    /\ UNCHANGED <<calc, scn, mirror, visited, sem, wg, files, dirs, gets, hist>>

\* deferred: <-sem
Release(t) ==
    /\ t.pc = "release"
    /\ sem > 0
    /\ sem' = sem - 1
    /\ tasks' = Become(t, [t EXCEPT !.pc = "wgDone", !.held = @ - 1])
    /\ UNCHANGED <<calc, scn, mirror, visited, currentDepth, wg, files, dirs, gets, hist>>

\* deferred: wg.Done(), and the goroutine ends
WgDone(t) ==
    /\ t.pc = "wgDone"
    /\ wg' = wgAdd(wg, -1)
    /\ tasks' = tasks (-) SetToBag({t})
    /\ hist' = [hist EXCEPT !.finished = @ + 1]
    /\ UNCHANGED <<calc, scn, mirror, visited, currentDepth, sem, files, dirs, gets>>

ProcessUrl(t) ==
    \/ Acquire(t) \/ LoadHit(t) \/ LoadMiss(t) \/ Store(t)
    \/ DepthExceeded(t) \/ DepthEnter(t)
    \/ SkipUrl(t) \/ FetchFail(t) \/ FetchOK(t)
    \/ SaveSkipped(t) \/ SaveFail(t) \/ SaveOK(t)
    \/ LinkPass(t) \/ LinkSpawn(t)
    \/ RewriteOK(t) \/ RewriteFailHtml(t) \/ RewriteFailCss(t)
    \/ Drain(t) \/ LeaveDepth(t) \/ Release(t) \/ WgDone(t)

Next ==
    \/ GetMirrorParamsNil
    \/ GetMirrorParams
    \/ MirrorMkdirFail
    \/ MirrorStart
    \/ MirrorReturn
    \/ \E t \in Live : ProcessUrl(t)

Spec == Init /\ [][Next]_vars

\* goroutines that can run do run
FairSpec == Spec /\ WF_vars(Next)

---------------------------------------------------------------------------
(* The path mapper called on its own, on every URL path of a bounded length *)

MaxPathLen == 3

\* path elements: empty (a doubled or trailing slash), plain, with an extension, numeric,
\* a dynamic keyword in upper case, a dotted version number
PathSegs == {E, <<"a">>, <<"a", "png">>, <<"42">>, <<"API">>, <<"v1", "2">>}

PathInputs == UNION {[1..n -> PathSegs] : n \in 0..MaxPathLen}

PathInit ==
    /\ Start(Run(ScBasic, 1))
    /\ \E p \in PathInputs : calc = [op |-> "input", url |-> Ex(p), out |-> <<>>]

CallConvertToLocalPath ==
    /\ calc.op = "input"
    /\ calc' = [calc EXCEPT !.op = "mapped", !.out = convertToLocalPath(calc.url)]
    /\ UNCHANGED <<scn, mirror, visited, currentDepth, sem, wg, tasks, files, dirs, gets, hist>>

PathNext == CallConvertToLocalPath

PathSpec == PathInit /\ [][PathNext]_vars

---------------------------------------------------------------------------
(* The mirror run twice over the same site, each time into an empty output directory *)

\* a file and a directory of the same name: /a.png and /a.png/x.css
ScDirRace ==
    Scenario("dirrace", Ex(Root),
        { Html(Ex(Root), << Href(Ex(P1(<<"a", "png">>))),
                            Href(Ex(P2(<<"a", "png">>, <<"x", "css">>))) >>),
          Leaf(Ex(P1(<<"a", "png">>))),
          Leaf(Ex(P2(<<"a", "png">>, <<"x", "css">>))) },
        Budgets, {}, {}, TRUE)

TwinScenarios == {ScDirRace, ScBasic, ScNoRoot, ScBadSeed}

TwinInit ==
    /\ \E sc \in TwinScenarios : \E b \in sc.budgets : Start(Run(sc, b))
    /\ calc = NoCall

\* main has exited; the tree it left is kept aside and main is started again with the same
\* arguments
TwinRestart ==
    /\ mirror.pc \in {"returned", "refused"}
    /\ calc = NoCall
    /\ calc' = [op |-> "first", tree |-> files, err |-> mirror.err]
    /\ scn' = scn
    /\ mirror' = [pc |-> "new", err |-> FALSE]
    /\ visited' = {}
    /\ currentDepth' = 0
    /\ sem' = 0
    /\ wg' = 0
    /\ tasks' = EmptyBag
    /\ files' = <<>>
    /\ dirs' = {}
    /\ gets' = EmptyBag
    /\ hist' = [spawned |-> 0, finished |-> 0, failed |-> {}, refused |-> {},
                writes |-> EmptyBag, parents |-> {}]

TwinNext == Next \/ TwinRestart

TwinSpec == TwinInit /\ [][TwinNext]_vars

---------------------------------------------------------------------------
(* getRelativePath called on its own, on every pair of a base and a reference *)

MaxBaseLen == 3
MaxRefLen == 2

\* the page a reference is found on: the seed is taken from the command line as typed, dot-dot
\* elements included
BaseSegs == {DotDot, <<"a">>, <<"x", "html">>}

\* a resolved reference: url.ResolveReference has removed the dot elements
RefSegs == {E, <<"a">>, <<"a", "png">>, <<"42">>, <<BackslashName, "png">>}

BaseInputs == UNION {[1..n -> BaseSegs] : n \in 0..MaxBaseLen}
RefInputs == UNION {[1..n -> RefSegs] : n \in 0..MaxRefLen}

RelInit ==
    /\ Start(Run(ScBasic, 1))
    /\ \E b \in BaseInputs : \E r \in RefInputs : \E h \in {"example.com", "other.org"} :
          calc = [op |-> "pair", base |-> Ex(b), ref |-> MkURL(h, r, "", ""), out |-> <<>>]

CallGetRelativePath ==
    /\ calc.op = "pair"
    /\ calc' = [calc EXCEPT !.op = "related", !.out = getRelativePath(calc.base, calc.ref)]
    /\ UNCHANGED <<scn, mirror, visited, currentDepth, sem, wg, tasks, files, dirs, gets, hist>>

RelNext == CallGetRelativePath

RelSpec == RelInit /\ [][RelNext]_vars

---------------------------------------------------------------------------
(* RateLimitedWriter: writers that share nothing but the passing of time *)

\* time is counted in ticks, the unit of time.Duration, and a second is this many of them
TicksPerSecond == 3
MaxChunk == 2
MaxWrites == 2

\* the slowest bandwidth
MinRate == 2

\* no call lasts longer than this: one tick more than the longest sleep
MaxTime == (MaxChunk * TicksPerSecond) \div MinRate + 1
Writers == {"observed", "other"}

\* bandwidths in bytes per second
Rates == {MinRate, MinRate + 1}

\* the pacing is dropped
expectedTimeNone(n, bandwidth) == 0

\* expectedTime := time.Duration(n) * time.Second / time.Duration(r.bandwidth)
expectedTime(n, bandwidth) == (n * TicksPerSecond) \div bandwidth

\* NewRateLimitedWriter(writer, bandwidth); a call of Write in flight has pc, n, the time
\* since its start and the rest of its sleep
NewRateLimitedWriter(bandwidth) ==
    [bandwidth |-> bandwidth, pc |-> "idle", n |-> 0, since |-> 0, rest |-> 0]

\* total is the history of the calls on the observed writer that returned n, nil: their
\* number, their bytes and their durations added up
RateInit ==
    /\ Start(Run(ScBasic, 1))
    /\ \E bw \in [Writers -> Rates] :
          calc = [op |-> "rate", w |-> [i \in Writers |-> NewRateLimitedWriter(bw[i])],
                  total |-> [writes |-> 0, bytes |-> 0, spent |-> 0]]

\* one tick passes for every call in flight
Tick ==
    /\ calc.op = "rate"
    /\ \E i \in Writers : calc.w[i].pc # "idle"
    /\ \A i \in Writers : calc.w[i].pc # "idle" => calc.w[i].since < MaxTime
    /\ calc' = [calc EXCEPT !.w = [i \in Writers |->
                   IF calc.w[i].pc = "idle" THEN calc.w[i]
                   ELSE [calc.w[i] EXCEPT !.since = @ + 1,
                                          !.rest = IF @ > 0 THEN @ - 1 ELSE 0]]]
    /\ UNCHANGED <<scn, mirror, visited, currentDepth, sem, wg, tasks, files, dirs, gets, hist>>

\* Write(p) is called with len(p) = n: start := time.Now(), then r.writer.Write(p) runs
WriteCall(i) ==
    /\ calc.op = "rate"
    /\ calc.w[i].pc = "idle"
    /\ i = "observed" => calc.total.writes < MaxWrites
    /\ \E n \in 1..MaxChunk :
          calc' = [calc EXCEPT !.w[i] = [@ EXCEPT !.pc = "inner", !.n = n, !.since = 0]]
    /\ UNCHANGED <<scn, mirror, visited, currentDepth, sem, wg, tasks, files, dirs, gets, hist>>

\* r.writer.Write(p) fails: Write returns the error at once
WriteError(i) ==
    /\ calc.op = "rate"
    /\ calc.w[i].pc = "inner"
    /\ calc' = [calc EXCEPT !.w[i] = [@ EXCEPT !.pc = "idle", !.n = 0, !.since = 0]]
    /\ UNCHANGED <<scn, mirror, visited, currentDepth, sem, wg, tasks, files, dirs, gets, hist>>

\* r.writer.Write(p) returns n: elapsed := time.Since(start), and time.Sleep(expectedTime -
\* elapsed) when elapsed < expectedTime
WritePace(i) ==
    /\ calc.op = "rate"
    /\ calc.w[i].pc = "inner"
    /\ LET elapsed == calc.w[i].since
           expected == expectedTime(calc.w[i].n, calc.w[i].bandwidth)
       IN calc' = [calc EXCEPT !.w[i] = [@ EXCEPT !.pc = "sleep",
                      !.rest = IF elapsed < expected THEN expected - elapsed ELSE 0]]
    /\ UNCHANGED <<scn, mirror, visited, currentDepth, sem, wg, tasks, files, dirs, gets, hist>>

\* time.Sleep is over (it sleeps at least the duration asked for) and Write returns n, nil
WriteReturn(i) ==
    /\ calc.op = "rate"
    /\ calc.w[i].pc = "sleep"
    /\ calc.w[i].rest = 0
    /\ calc' = [calc EXCEPT !.w[i] = [@ EXCEPT !.pc = "idle", !.n = 0, !.since = 0],
                            !.total = IF i = "observed"
                                      THEN [writes |-> @.writes + 1,
                                            bytes |-> @.bytes + calc.w[i].n,
                                            spent |-> @.spent + calc.w[i].since]
                                      ELSE @]
    /\ UNCHANGED <<scn, mirror, visited, currentDepth, sem, wg, tasks, files, dirs, gets, hist>>

RateNext ==
    \/ Tick
    \/ \E i \in Writers : WriteCall(i)
    \/ \E i \in Writers : WriteError(i)
    \/ \E i \in Writers : WritePace(i)
    \/ \E i \in Writers : WriteReturn(i)

RateSpec == RateInit /\ [][RateNext]_vars

---------------------------------------------------------------------------
(* The rate-limit flag: utils.ParseRateLimit, and the writer DownloadFile sets up from it *)

MaxRateLen == 3

\* a string is the sequence of its characters
RateChars == {"0", "1", "5", "k", "K", "m", "x", "-"}
RateInputs == UNION {[1..n -> RateChars] : n \in 0..MaxRateLen}

DigitChars == {"0", "1", "2", "3", "4", "5", "6", "7", "8", "9"}
DigitVal(c) ==
    CASE c = "0" -> 0 [] c = "1" -> 1 [] c = "2" -> 2 [] c = "3" -> 3 [] c = "4" -> 4
      [] c = "5" -> 5 [] c = "6" -> 6 [] c = "7" -> 7 [] c = "8" -> 8 [] c = "9" -> 9

\* strings.ToLower
ToLowerChar(c) == CASE c = "K" -> "k" [] c = "M" -> "m" [] OTHER -> c
ToLower(s) == [k \in 1..Len(s) |-> ToLowerChar(s[k])]

\* the decimal digits at the head of s, read as a number
RECURSIVE ScanDigits(_, _)
ScanDigits(s, acc) ==
    IF s # <<>> /\ Head(s) \in DigitChars
    THEN ScanDigits(Tail(s), 10 * acc + DigitVal(Head(s)))
    ELSE acc

\* ParseInt: fmt.Sscanf(s, "%d", &result) reads an optional sign and the digits that follow,
\* leaves the rest of s unread, and fails when there is no digit
ParseInt(s) ==
    LET signed == s # <<>> /\ Head(s) \in {"-", "+"}
        body == IF signed THEN Tail(s) ELSE s
    IN IF body = <<>> \/ Head(body) \notin DigitChars
       THEN [err |-> TRUE, val |-> 0]
       ELSE [err |-> FALSE,
             val |-> IF signed /\ Head(s) = "-" THEN 0 - ScanDigits(body, 0) ELSE ScanDigits(body, 0)]

\* utils.ParseRateLimit
ParseRateLimit(rateLimit) ==
    LET low == ToLower(rateLimit)
        k == low # <<>> /\ Last(low) = "k"
        m == low # <<>> /\ ~k /\ Last(low) = "m"
        multiplier == IF k THEN 1024 ELSE IF m THEN 1024 * 1024 ELSE 1
        rate == ParseInt(IF k \/ m THEN Front(low) ELSE low)
    IN IF rate.err THEN [err |-> TRUE, val |-> 0]
       ELSE [err |-> FALSE, val |-> rate.val * multiplier]

\* download.ParseRateLimit, the function of that name in DownloadFile's own package
DownloadParseRateLimit(rateLimit) == [err |-> FALSE, val |-> 1024 * 1024]

LimitInit ==
    /\ Start(Run(ScBasic, 1))
    /\ \E s \in RateInputs : calc = [op |-> "flag", rateLimit |-> s, parsed |-> <<>>, writer |-> <<>>]

\* utils.ParseRateLimit(rateLimit)
CallParseRateLimit ==
    /\ calc.op = "flag"
    /\ calc.parsed = <<>>
    /\ calc' = [calc EXCEPT !.parsed = ParseRateLimit(calc.rateLimit)]
    /\ UNCHANGED <<scn, mirror, visited, currentDepth, sem, wg, tasks, files, dirs, gets, hist>>

\* DownloadFile, lines 529-538: the writer is the file, or a RateLimitedWriter around it when
\* rateLimit is not empty
SetUpWriter ==
    /\ calc.op = "flag"
    /\ calc.writer = <<>>
    /\ calc' = [calc EXCEPT
                  !.writer = IF calc.rateLimit = <<>> THEN [kind |-> "file"]
                             ELSE LET limit == DownloadParseRateLimit(calc.rateLimit) IN
                                  IF limit.err THEN [kind |-> "none"]
                                  ELSE [kind |-> "limited", bandwidth |-> limit.val]]
    /\ UNCHANGED <<scn, mirror, visited, currentDepth, sem, wg, tasks, files, dirs, gets, hist>>

LimitNext == CallParseRateLimit \/ SetUpWriter

LimitSpec == LimitInit /\ [][LimitNext]_vars

---------------------------------------------------------------------------
(* OutputManager: its methods called in any order by concurrent callers; each runs under  *)
(* om.mu, so each is one step                                                             *)

maxLogLines == 10

\* time.Millisecond*200, in ticks of 100 ms
RedrawInterval == 2

MaxClock == 3
MaxLogged == 12
MaxDownloaded == 1
DlUrls == {"u1", "u2"}

\* NewOutputManager(): no progress bar, no log line. An entry of progressBars holds
\* Downloaded and LastUpdated, and drawn, the time updateDisplay last printed its bar
NewOutputManager == [progressBars |-> <<>>, logMessages |-> <<>>]

\* the last maxLogLines messages are kept, whatever their number
TrimNever(msgs) == msgs

\* if len(om.logMessages) > om.maxLogLines { om.logMessages = om.logMessages[len-maxLogLines:] }
Trim(msgs) ==
    IF Len(msgs) > maxLogLines
    THEN SubSeq(msgs, Len(msgs) - maxLogLines + 1, Len(msgs))
    ELSE msgs

\* updateDisplay(): the screen is cleared and every log line and progress bar printed
updateDisplay(om, now) ==
    [om EXCEPT !.progressBars = [u \in DOMAIN om.progressBars |->
                                    [om.progressBars[u] EXCEPT !.drawn = now]]]

RegisterDownload(om, url, now) ==
    updateDisplay([om EXCEPT !.progressBars =
                      (url :> [Downloaded |-> 0, LastUpdated |-> 0, drawn |-> now])
                          @@ om.progressBars], now)

\* the test of line 85, made after info.LastUpdated = time.Now() at line 82
redraws(om, url, now) ==
    LET bars == [om.progressBars EXCEPT ![url].LastUpdated = now] IN
    \/ Cardinality(DOMAIN bars) = 1
    \/ now - bars[url].LastUpdated > RedrawInterval

\* an update for a URL without an entry makes one
UpdateProgressCreates(om, url, downloaded, now) ==
    IF url \in DOMAIN om.progressBars
    THEN LET upd == [om EXCEPT !.progressBars[url].Downloaded = downloaded,
                               !.progressBars[url].LastUpdated = now]
         IN IF redraws(om, url, now) THEN updateDisplay(upd, now) ELSE upd
    ELSE [om EXCEPT !.progressBars =
             (url :> [Downloaded |-> downloaded, LastUpdated |-> now, drawn |-> 0]) @@ @]

UpdateProgress(om, url, downloaded, now) ==
    IF url \in DOMAIN om.progressBars
    THEN LET upd == [om EXCEPT !.progressBars[url].Downloaded = downloaded,
                               !.progressBars[url].LastUpdated = now]
         IN IF redraws(om, url, now) THEN updateDisplay(upd, now) ELSE upd
    ELSE om

CompleteDownload(om, url, now) ==
    updateDisplay([om EXCEPT !.progressBars =
                      [u \in DOMAIN om.progressBars \ {url} |-> om.progressBars[u]]], now)

Log(om, msg, now) ==
    updateDisplay([om EXCEPT !.logMessages = Trim(Append(om.logMessages, msg))], now)

\* logged counts the calls of Log; last is the call that came last
ManagerInit ==
    /\ Start(Run(ScBasic, 1))
    /\ calc = [op |-> "om", now |-> 0, om |-> NewOutputManager, logged |-> 0,
               last |-> [op |-> "new", url |-> "", drew |-> FALSE]]

Clock ==
    /\ calc.op = "om"
    /\ calc.now < MaxClock
    /\ calc' = [calc EXCEPT !.now = @ + 1, !.last = [op |-> "clock", url |-> "", drew |-> FALSE]]
    /\ UNCHANGED <<scn, mirror, visited, currentDepth, sem, wg, tasks, files, dirs, gets, hist>>

CallRegisterDownload ==
    /\ calc.op = "om"
    /\ \E u \in DlUrls :
          calc' = [calc EXCEPT !.om = RegisterDownload(calc.om, u, calc.now),
                               !.last = [op |-> "register", url |-> u, drew |-> TRUE]]
    /\ UNCHANGED <<scn, mirror, visited, currentDepth, sem, wg, tasks, files, dirs, gets, hist>>

CallUpdateProgress ==
    /\ calc.op = "om"
    /\ \E u \in DlUrls : \E d \in 1..MaxDownloaded :
          calc' = [calc EXCEPT !.om = UpdateProgress(calc.om, u, d, calc.now),
                               !.last = [op |-> "update", url |-> u,
                                         drew |-> /\ u \in DOMAIN calc.om.progressBars
                                                  /\ redraws(calc.om, u, calc.now)]]
    /\ UNCHANGED <<scn, mirror, visited, currentDepth, sem, wg, tasks, files, dirs, gets, hist>>

CallCompleteDownload ==
    /\ calc.op = "om"
    /\ \E u \in DlUrls :
          calc' = [calc EXCEPT !.om = CompleteDownload(calc.om, u, calc.now),
                               !.last = [op |-> "complete", url |-> u, drew |-> TRUE]]
    /\ UNCHANGED <<scn, mirror, visited, currentDepth, sem, wg, tasks, files, dirs, gets, hist>>

\* the message is the number of the call
CallLog ==
    /\ calc.op = "om"
    /\ calc.logged < MaxLogged
    /\ calc' = [calc EXCEPT !.om = Log(calc.om, calc.logged + 1, calc.now),
                            !.logged = @ + 1,
                            !.last = [op |-> "log", url |-> "", drew |-> TRUE]]
    /\ UNCHANGED <<scn, mirror, visited, currentDepth, sem, wg, tasks, files, dirs, gets, hist>>

ManagerNext ==
    \/ Clock
    \/ CallRegisterDownload
    \/ CallUpdateProgress
    \/ CallCompleteDownload
    \/ CallLog

ManagerSpec == ManagerInit /\ [][ManagerNext]_vars

---------------------------------------------------------------------------
(* DownloadMultipleFiles and the DownloadFile goroutines it starts, with the OutputManager *)

\* one line of the URL file and what happens to its download: nothing ("none"), http.Get
\* fails ("get"), the status is not 200 ("status"), os.MkdirAll fails ("mkdir"), os.Create
\* fails ("create"), io.Copy fails ("copy")
Dl(u, ft) == [url |-> u, fault |-> ft]

DlLists ==
    { << Dl("u1", "none") >>,
      << Dl("u1", "none"), Dl("u2", "none") >>,
      << Dl("u1", "copy"), Dl("u2", "none") >>,
      << Dl("u1", "get"), Dl("u2", "status") >>,
      << Dl("u1", "mkdir"), Dl("u2", "create") >>,
      << Dl("u1", "none"), Dl("u1", "none") >> }

Msg(text, u) == [text |-> text, url |-> u]

\* the goroutine of urls[i] logs a line and moves on in DownloadFile
WorkerLogs(i, text, pc) ==
    [calc EXCEPT !.worker[i].pc = pc,
                 !.om = Log(calc.om, Msg(text, calc.urls[i].url), calc.now)]

DownloadInit ==
    /\ Start(Run(ScBasic, 1))
    /\ \E urls \in DlLists :
          calc = [op |-> "dl", urls |-> urls, now |-> 0, om |-> NewOutputManager,
                  main |-> [pc |-> "begin", i |-> 1], wg |-> 0,
                  worker |-> [i \in 1..Len(urls) |-> [pc |-> "unborn", downloaded |-> 0]]]

\* manager.Log("Starting download of %d files", len(urls))
DlBegin ==
    /\ calc.op = "dl"
    /\ calc.main.pc = "begin"
    /\ calc' = [calc EXCEPT !.main.pc = "spawn",
                            !.om = Log(calc.om, Msg("Starting download of files", ""), calc.now)]
    /\ UNCHANGED <<scn, mirror, visited, currentDepth, sem, wg, tasks, files, dirs, gets, hist>>

\* the Add for a goroutine is lost
dlAddNone(w) == w

\* wg.Add(1)
dlAdd(w) == w + 1

\* for _, u := range urls { wg.Add(1); go func(url string) {...}(u) }
DlSpawn ==
    /\ calc.op = "dl"
    /\ calc.main.pc = "spawn"
    /\ calc.main.i <= Len(calc.urls)
    /\ calc' = [calc EXCEPT !.main.i = @ + 1, !.wg = dlAdd(@),
                            !.worker[calc.main.i].pc = "start"]
    /\ UNCHANGED <<scn, mirror, visited, currentDepth, sem, wg, tasks, files, dirs, gets, hist>>

\* wg.Wait() returns, then manager.Log("All downloads completed") and the return
DlReturn ==
    /\ calc.op = "dl"
    /\ calc.main.pc = "spawn"
    /\ calc.main.i > Len(calc.urls)
    /\ calc.wg = 0
    /\ calc' = [calc EXCEPT !.main.pc = "returned",
                            !.om = Log(calc.om, Msg("All downloads completed", ""), calc.now)]
    /\ UNCHANGED <<scn, mirror, visited, currentDepth, sem, wg, tasks, files, dirs, gets, hist>>

\* manager.Log("Starting download of %s", fileURL)
DlStart(i) ==
    /\ calc.worker[i].pc = "start"
    /\ calc' = WorkerLogs(i, "Starting download", "get")

\* http.Get fails, or the status is not 200: logged, DownloadFile returns the error
DlGetFail(i) ==
    /\ calc.worker[i].pc = "get"
    /\ calc.urls[i].fault \in {"get", "status"}
    /\ calc' = WorkerLogs(i, IF calc.urls[i].fault = "get" THEN "Error requesting"
                             ELSE "Status error", "failed")

DlGetOK(i) ==
    /\ calc.worker[i].pc = "get"
    /\ calc.urls[i].fault \notin {"get", "status"}
    /\ calc' = WorkerLogs(i, "Response received", "size")

DlSize(i) ==
    /\ calc.worker[i].pc = "size"
    /\ calc' = WorkerLogs(i, "Content size", "saving")

DlSaving(i) ==
    /\ calc.worker[i].pc = "saving"
    /\ calc' = WorkerLogs(i, "Saving", "create")

\* os.MkdirAll or os.Create fails: logged, DownloadFile returns the error
DlCreateFail(i) ==
    /\ calc.worker[i].pc = "create"
    /\ calc.urls[i].fault \in {"mkdir", "create"}
    /\ calc' = WorkerLogs(i, IF calc.urls[i].fault = "mkdir" THEN "Error creating directory"
                             ELSE "Error creating file", "failed")

\* the file is created, the writer set up, and NewModifiedProgressWriter registers the download
DlRegister(i) ==
    /\ calc.worker[i].pc = "create"
    /\ calc.urls[i].fault \notin {"mkdir", "create"}
    /\ calc' = [calc EXCEPT !.worker[i].pc = "copy",
                            !.om = RegisterDownload(calc.om, calc.urls[i].url, calc.now)]

\* io.Copy: one more Write of ModifiedProgressWriter, which calls UpdateProgress
DlWrite(i) ==
    /\ calc.worker[i].pc = "copy"
    /\ calc.worker[i].downloaded < MaxDownloaded
    /\ calc' = [calc EXCEPT !.worker[i].downloaded = @ + 1,
                            !.om = UpdateProgress(calc.om, calc.urls[i].url,
                                                  calc.worker[i].downloaded + 1, calc.now)]

\* io.Copy returns an error: logged, DownloadFile returns the error
DlCopyFail(i) ==
    /\ calc.worker[i].pc = "copy"
    /\ calc.urls[i].fault = "copy"
    /\ calc' = WorkerLogs(i, "Error downloading", "failed")

\* io.Copy returns nil: manager.Log("Completed download of %s", fileURL)
DlCopied(i) ==
    /\ calc.worker[i].pc = "copy"
    /\ calc.urls[i].fault # "copy"
    /\ calc.worker[i].downloaded = MaxDownloaded
    /\ calc' = WorkerLogs(i, "Completed download", "complete")

\* manager.CompleteDownload(fileURL); return nil
DlComplete(i) ==
    /\ calc.worker[i].pc = "complete"
    /\ calc' = [calc EXCEPT !.worker[i].pc = "ok",
                            !.om = CompleteDownload(calc.om, calc.urls[i].url, calc.now)]

\* the goroutine logs the error DownloadFile returned
DlReportError(i) ==
    /\ calc.worker[i].pc = "failed"
    /\ calc' = WorkerLogs(i, "Error downloading (goroutine)", "error")

\* deferred: wg.Done()
DlDone(i) ==
    /\ calc.worker[i].pc \in {"ok", "error"}
    /\ calc' = [calc EXCEPT !.wg = @ - 1,
                            !.worker[i].pc = IF calc.worker[i].pc = "ok" THEN "done" ELSE "gone"]

DownloadFile(i) ==
    /\ calc.op = "dl"
    /\ \/ DlStart(i) \/ DlGetFail(i) \/ DlGetOK(i) \/ DlSize(i) \/ DlSaving(i)
       \/ DlCreateFail(i) \/ DlRegister(i) \/ DlWrite(i) \/ DlCopyFail(i) \/ DlCopied(i)
       \/ DlComplete(i) \/ DlReportError(i) \/ DlDone(i)
    /\ UNCHANGED <<scn, mirror, visited, currentDepth, sem, wg, tasks, files, dirs, gets, hist>>

DownloadNext ==
    \/ DlBegin
    \/ DlSpawn
    \/ DlReturn
    \/ \E i \in 1..Len(calc.urls) : DownloadFile(i)

DownloadSpec == DownloadInit /\ [][DownloadNext]_vars

---------------------------------------------------------------------------
(* processNode: the loop over the attributes of each element of a parsed document *)

MaxAttrs == 3

AttrKeys == {"href", "integrity", "class"}

\* the attributes of one element as the parser leaves them, each with its place in the tag
AttrLists ==
    UNION {{[k \in 1..n |-> [Key |-> keys[k], at |-> k]] : keys \in [1..n -> AttrKeys]} :
              n \in 0..MaxAttrs}

\* a document: an element, or an element and its child
Documents == {<<a>> : a \in AttrLists} \cup {<<a, b>> : a \in AttrLists, b \in AttrLists}

\* the attribute is removed and the loop goes on from the next index
stripAndSkip(Attr, i) == [Attr |-> SubSeq(Attr, 1, i - 1) \o SubSeq(Attr, i + 1, Len(Attr)), i |-> i + 1]

\* case "integrity", lines 1003-1010, with the i++ of the loop: n.Attr[i] is removed and the
\* attribute that takes its place is the next one examined (indices from 1)
strip(Attr, i) ==
    IF i < Len(Attr)
    THEN [Attr |-> SubSeq(Attr, 1, i - 1) \o SubSeq(Attr, i + 1, Len(Attr)), i |-> (i - 1) + 1]
    ELSE [Attr |-> SubSeq(Attr, 1, i - 1), i |-> i + 1]

\* doc holds n.Attr of each element, n is the element processNode is at, i the index of its
\* loop, seen the attributes the switch has been given
NodeInit ==
    /\ Start(Run(ScBasic, 1))
    /\ \E d \in Documents :
          calc = [op |-> "node", parsed |-> d, doc |-> d, n |-> 1, i |-> 1,
                  seen |-> [e \in 1..Len(d) |-> <<>>]]

\* one turn of the loop on an attribute other than integrity: href is rewritten in place,
\* the others are left alone
ExamineAttr ==
    /\ calc.op = "node"
    /\ calc.n <= Len(calc.doc)
    /\ calc.i <= Len(calc.doc[calc.n])
    /\ calc.doc[calc.n][calc.i].Key # "integrity"
    /\ calc' = [calc EXCEPT !.i = @ + 1,
                            !.seen[calc.n] = Append(@, calc.doc[calc.n][calc.i])]
    /\ UNCHANGED <<scn, mirror, visited, currentDepth, sem, wg, tasks, files, dirs, gets, hist>>

\* one turn of the loop on an integrity attribute
StripIntegrity ==
    /\ calc.op = "node"
    /\ calc.n <= Len(calc.doc)
    /\ calc.i <= Len(calc.doc[calc.n])
    /\ calc.doc[calc.n][calc.i].Key = "integrity"
    /\ LET r == strip(calc.doc[calc.n], calc.i) IN
       calc' = [calc EXCEPT !.doc[calc.n] = r.Attr, !.i = r.i,
                            !.seen[calc.n] = Append(@, calc.doc[calc.n][calc.i])]
    /\ UNCHANGED <<scn, mirror, visited, currentDepth, sem, wg, tasks, files, dirs, gets, hist>>

\* the loop is over: for c := n.FirstChild; c != nil; c = c.NextSibling { processNode(c) }
NextNode ==
    /\ calc.op = "node"
    /\ calc.n <= Len(calc.doc)
    /\ calc.i > Len(calc.doc[calc.n])
    /\ calc' = [calc EXCEPT !.n = @ + 1, !.i = 1]
    /\ UNCHANGED <<scn, mirror, visited, currentDepth, sem, wg, tasks, files, dirs, gets, hist>>

NodeNext == ExamineAttr \/ StripIntegrity \/ NextNode

NodeSpec == NodeInit /\ [][NodeNext]_vars

---------------------------------------------------------------------------
(* The mirror on sites with a page html.Parse rejects *)

\* the unparsable page holds references of its own
ScParseFault ==
    Scenario("parsefault", Ex(Root),
        { Html(Ex(Root), << Href(Ex(P1(<<"bad">>))) >>),
          Page(Ex(P1(<<"bad">>)), 200, "html",
               << Href(Ex(P1(<<"never">>))), StyleUrl(Ex(P1(<<"never", "png">>))) >>, "parse"),
          Leaf(Ex(P1(<<"never">>))),
          Leaf(Ex(P1(<<"never", "png">>))) },
        Budgets, {}, {}, TRUE)

FaultScenarios == {ScParseFault, ScSaveFaults, ScNoRoot, ScBadSeed}

FaultInit ==
    /\ \E sc \in FaultScenarios : \E b \in sc.budgets : Start(Run(sc, b))
    /\ calc = NoCall

FaultSpec == FaultInit /\ [][Next]_vars

---------------------------------------------------------------------------
(* The mirror with more than maxDepth pages in flight at once *)

DepthScenarios == {ScDeep, ScNoRoot, ScBadSeed}

DepthInit ==
    /\ \E sc \in DepthScenarios : \E b \in sc.budgets : Start(Run(sc, b))
    /\ calc = NoCall

DepthSpec == DepthInit /\ [][Next]_vars

---------------------------------------------------------------------------
(* The sequential mirror (MirrorOptions): ProcessUrl calls itself for every reference, so  *)
(* the run is a stack of calls.  calc holds its state: the stack of frames [url, pc, i,    *)
(* entry] (entry is history: currentDepth when the call began), m.visited and              *)
(* m.currentDepth; the output tree is the one of the concurrent mirror.                    *)

SeqScenarios == {ScBasic, ScChain, ScFilters, ScFetchFaults, ScSaveFaults, ScRenderFaults,
                 ScNoRoot, ScBadSeed}

SeqFrame(u, depth) == [url |-> u, pc |-> "enter", i |-> 0, out |-> <<>>, entry |-> depth]

Top == calc.stack[Len(calc.stack)]

\* NewMirrorOptions: visited is empty and currentDepth is 0
SeqInit ==
    /\ \E sc \in SeqScenarios : scn = Run(sc, 1)
    /\ mirror = [pc |-> "sequential", err |-> FALSE]
    /\ visited = {} /\ currentDepth = 0 /\ sem = 0 /\ wg = 0
    /\ tasks = EmptyBag /\ files = <<>> /\ dirs = {} /\ gets = EmptyBag
    /\ hist = [spawned |-> 0, finished |-> 0, failed |-> {}, refused |-> {},
               writes |-> EmptyBag, parents |-> {}]
    /\ calc = [op |-> "seq", pc |-> "new", stack |-> <<>>, visited |-> {}, currentDepth |-> 0]

\* NewMirrorOptions returns nil, or os.MkdirAll(m.OutputDir) fails
SeqMirrorFail ==
    /\ calc.op = "seq" /\ calc.pc = "new"
    /\ urlParseFails(scn.seed) \/ ~scn.mkdirOK
    /\ calc' = [calc EXCEPT !.pc = "returned"]
    /\ UNCHANGED <<scn, mirror, visited, currentDepth, sem, wg, tasks, files, dirs, gets, hist>>

\* Mirror: return m.ProcessUrl(m.URL)
SeqMirror ==
    /\ calc.op = "seq" /\ calc.pc = "new"
    /\ ~urlParseFails(scn.seed) /\ scn.mkdirOK
    /\ dirs' = dirs \cup {<<>>}
    /\ calc' = [calc EXCEPT !.pc = "running", !.stack = <<SeqFrame(scn.seed, 0)>>]
    /\ UNCHANGED <<scn, mirror, visited, currentDepth, sem, wg, tasks, files, gets, hist>>

\* if ext == "exe" || ext == "zip" || ext == "pdf" || ext == "dmg"
skippedType(u) == extOf(u.path) \in {<<"exe">>, <<"zip">>, <<"pdf">>, <<"dmg">>}

\* the call up to the request: parse, visited, depth limit, host, /js/, exclude, file type
SeqEnter ==
    /\ calc.op = "seq" /\ calc.pc = "running"
    /\ Top.pc = "enter"
    /\ LET u == Top.url
           known == urlParseFails(u) \/ urlKey(u) \in calc.visited
           stops == known \/ depthExceeded(calc.currentDepth) \/ skipsRequest(u) \/ skippedType(u)
       IN calc' = [calc EXCEPT !.visited = IF known THEN @ ELSE @ \cup {urlKey(u)},
                               !.stack[Len(calc.stack)].pc = IF stops THEN "ret" ELSE "fetch"]
    /\ UNCHANGED <<scn, mirror, visited, currentDepth, sem, wg, tasks, files, dirs, gets, hist>>

\* the request, the raw body on disk, html.Parse
SeqFetch ==
    /\ calc.op = "seq" /\ calc.pc = "running"
    /\ Top.pc = "fetch"
    /\ LET u == Top.url
           pg == PageOf(Resource(u))
           out == outputPathOf(u)
           dir == Front(out)
           saves == shouldSaveFile(u) /\ ~requestFails(pg)
           saved == saves /\ pg.fault \notin {"mkdir", "write"} /\ ~mkdirBlocked(dir) /\ out \notin dirs
           scans == /\ ~requestFails(pg)
                    /\ saves => saved
                    /\ (pg.ctype = "html" /\ pg.fault # "parse") \/ pg.ctype = "css"
       IN /\ gets' = gets (+) SetToBag({Resource(u)})
          /\ dirs' = IF saves /\ pg.fault # "mkdir" THEN dirs \cup mkdirMade(dir) ELSE dirs
          /\ files' = IF saved THEN (out :> Content(u, "raw")) @@ files ELSE files
          /\ hist' = IF saved
                     THEN [hist EXCEPT !.writes = @ (+) SetToBag({Wrote(out, u, "raw")})]
                     ELSE hist
          /\ calc' = [calc EXCEPT !.stack[Len(calc.stack)] =
                         [Top EXCEPT !.pc = IF scans THEN "links" ELSE "ret",
                                     !.i = 1, !.out = out]]
    /\ UNCHANGED <<scn, mirror, visited, currentDepth, sem, wg, tasks>>

\* a reference that is not followed, or whose key is in visited: continue
SeqPass ==
    /\ calc.op = "seq" /\ calc.pc = "running"
    /\ Top.pc = "links"
    /\ LET refs == PageOf(Resource(Top.url)).refs IN
       /\ Top.i <= Len(refs)
       /\ ~follows(refs[Top.i]) \/ urlKey(refs[Top.i].url) \in calc.visited
    /\ calc' = [calc EXCEPT !.stack[Len(calc.stack)].i = @ + 1]
    /\ UNCHANGED <<scn, mirror, visited, currentDepth, sem, wg, tasks, files, dirs, gets, hist>>

\* m.currentDepth++; m.ProcessUrl(absURL.String())
SeqCall ==
    /\ calc.op = "seq" /\ calc.pc = "running"
    /\ Top.pc = "links"
    /\ LET refs == PageOf(Resource(Top.url)).refs IN
       /\ Top.i <= Len(refs)
       /\ follows(refs[Top.i])
       /\ urlKey(refs[Top.i].url) \notin calc.visited
       /\ calc' = [calc EXCEPT !.currentDepth = @ + 1,
                               !.stack = Append(@, SeqFrame(refs[Top.i].url, calc.currentDepth + 1))]
    /\ UNCHANGED <<scn, mirror, visited, currentDepth, sem, wg, tasks, files, dirs, gets, hist>>

\* every reference is processed: the rewritten body is written, if it can be
SeqFinish ==
    /\ calc.op = "seq" /\ calc.pc = "running"
    /\ Top.pc = "links"
    /\ LET u == Top.url
           pg == PageOf(Resource(u))
           writes == shouldSaveFile(u) /\ ~rewriteFails(Top, pg)
       IN /\ Top.i > Len(pg.refs)
          /\ files' = IF writes THEN (Top.out :> Content(u, "rewritten")) @@ files ELSE files
          /\ hist' = IF writes
                     THEN [hist EXCEPT !.writes = @ (+) SetToBag({Wrote(Top.out, u, "rewritten")})]
                     ELSE hist
    /\ calc' = [calc EXCEPT !.stack[Len(calc.stack)].pc = "ret"]
    /\ UNCHANGED <<scn, mirror, visited, currentDepth, sem, wg, tasks, dirs, gets>>

\* the counter is left as the call raised it
seqAfterCallKept(depth) == depth

\* m.currentDepth-- after the recursive call
seqAfterCall(depth) == depth - 1

\* the call returns to the ProcessUrl that made it, which goes on with its next reference
SeqReturn ==
    /\ calc.op = "seq" /\ calc.pc = "running"
    /\ Top.pc = "ret"
    /\ Len(calc.stack) > 1
    /\ LET caller == Len(calc.stack) - 1 IN
       calc' = [calc EXCEPT !.currentDepth = seqAfterCall(@),
                            !.stack = [Front(@) EXCEPT ![caller].i = @ + 1]]
    /\ UNCHANGED <<scn, mirror, visited, currentDepth, sem, wg, tasks, files, dirs, gets, hist>>

\* the call for the seed returns: Mirror returns
SeqMirrorReturn ==
    /\ calc.op = "seq" /\ calc.pc = "running"
    /\ Top.pc = "ret"
    /\ Len(calc.stack) = 1
    /\ calc' = [calc EXCEPT !.pc = "returned"]
    /\ UNCHANGED <<scn, mirror, visited, currentDepth, sem, wg, tasks, files, dirs, gets, hist>>

SeqNext ==
    \/ SeqMirrorFail \/ SeqMirror \/ SeqEnter \/ SeqFetch
    \/ SeqPass \/ SeqCall \/ SeqFinish \/ SeqReturn \/ SeqMirrorReturn

\* both mirrors, each run by itself
BalanceInit == Init \/ SeqInit

BalanceNext == Next \/ SeqNext

BalanceSpec == BalanceInit /\ [][BalanceNext]_vars

---------------------------------------------------------------------------
(* The mirror on a site whose pages differ by query string only *)

QueryScenarios == {ScQuery, ScDup, ScNoRoot, ScBadSeed}

QueryInit ==
    /\ \E sc \in QueryScenarios : \E b \in sc.budgets : Start(Run(sc, b))
    /\ calc = NoCall

QuerySpec == QueryInit /\ [][Next]_vars

---------------------------------------------------------------------------
(* The rewriting of url(...) in CSS text, in a stylesheet, a <style> element or a style   *)
(* attribute: the same loop in the three places.  A CSS text is a sequence of tokens, a   *)
(* url token being url( open val close ) and a text token anything between two of them.   *)

MaxCssLen == 3

\* the quote characters the pattern of extractURLsFromCSS allows either side of the value
Quotes == {"", "'", "\""}

UrlTok(q1, v, q2) == [kind |-> "url", open |-> q1, val |-> v, close |-> q2]
TextTok == [kind |-> "text", open |-> "", val |-> "a{b:", close |-> ""]

\* what the url(...) of the inputs name: a same-host file, a foreign one, a string that
\* url.Parse rejects
CssRefs == {CssUrl(Ex(P2(<<"img">>, <<"a", "png">>))), CssUrl(Other(P1(<<"f", "woff">>))),
            CssUrl(Malformed(P1(<<"x">>)))}

CssToks == {TextTok} \cup {UrlTok(q, Written(r), q) : q \in Quotes, r \in CssRefs}

CssInputs == UNION {[1..n -> CssToks] : n \in 0..MaxCssLen}

\* urlPattern.FindAllStringSubmatch: the values of the url tokens, in order
extractURLsFromCSS(css) ==
    LET toks == SelectSeq(css, LAMBDA tok : tok.kind = "url")
    IN [k \in 1..Len(toks) |-> toks[k].val]

\* strings.ReplaceAll(css, old, new) for a url(...) old
ReplaceAll(css, old, new) == [k \in 1..Len(css) |-> IF css[k] = old THEN new ELSE css[k]]

\* one turn of the loop over the extracted URLs, up to the test of visited
rewriteCssUrl(css, base, cssURL) ==
    IF urlParseFails(cssURL.url) THEN css
    ELSE IF hostMatches(cssURL.url.host) /\ scn.ConvertLinks
    THEN LET localPath == getRelativePath(base, cssURL.url)
             single == ReplaceAll(css, UrlTok("'", cssURL, "'"), UrlTok("'", localPath, "'"))
             double == ReplaceAll(single, UrlTok("\"", cssURL, "\""), UrlTok("\"", localPath, "\""))
         IN ReplaceAll(double, UrlTok("", cssURL, ""), UrlTok("", localPath, "'"))
    ELSE css

CssInit ==
    /\ \E sc \in {ScRel, ScAbs} : Start(Run(sc, 1))
    /\ \E css \in CssInputs :
          calc = [op |-> "css", base |-> Ex(P2(<<"css">>, <<"s", "css">>)), orig |-> css,
                  cssContent |-> css, urls |-> extractURLsFromCSS(css), k |-> 1]

\* for _, cssURL := range urls
CssRewriteUrl ==
    /\ calc.op = "css"
    /\ calc.k <= Len(calc.urls)
    /\ calc' = [calc EXCEPT !.cssContent = rewriteCssUrl(@, calc.base, calc.urls[calc.k]),
                            !.k = @ + 1]
    /\ UNCHANGED <<scn, mirror, visited, currentDepth, sem, wg, tasks, files, dirs, gets, hist>>

\* the loop is over: cssContent is what is written back
CssWrite ==
    /\ calc.op = "css"
    /\ calc.k > Len(calc.urls)
    /\ calc' = [calc EXCEPT !.op = "rewritten"]
    /\ UNCHANGED <<scn, mirror, visited, currentDepth, sem, wg, tasks, files, dirs, gets, hist>>

CssNext == CssRewriteUrl \/ CssWrite

CssSpec == CssInit /\ [][CssNext]_vars

---------------------------------------------------------------------------
(* The mirror on sites with references the crawl rewrites but does not store *)

NavScenarios == {ScFilters, ScBasic, ScNoRoot, ScBadSeed}

NavInit ==
    /\ \E sc \in NavScenarios : \E b \in sc.budgets : Start(Run(sc, b))
    /\ calc = NoCall

NavSpec == NavInit /\ [][Next]_vars

---------------------------------------------------------------------------
(* DownloadFile with a rate limit taken from the command line: the writer it builds from  *)
(* utils.ParseRateLimit and one Write on that writer                                      *)

\* the quotient of Go's integer division, which truncates toward zero; b is not 0
Quo(a, b) ==
    LET abs(x) == IF x < 0 THEN 0 - x ELSE x
        q == abs(a) \div abs(b)
    IN IF (a < 0) = (b < 0) THEN q ELSE 0 - q

\* Write(p) on a writer of the given bandwidth: the inner writer takes n bytes in elapsed
\* ticks and fails or not; the division by a bandwidth of 0 is a run-time panic
Write(n, failed, elapsed, bandwidth) ==
    IF failed THEN [kind |-> "returned", n |-> n, err |-> TRUE, slept |-> 0]
    ELSE IF bandwidth = 0 THEN [kind |-> "panic", n |-> 0, err |-> FALSE, slept |-> 0]
    ELSE LET expected == Quo(n * TicksPerSecond, bandwidth) IN
         [kind |-> "returned", n |-> n, err |-> FALSE,
          slept |-> IF elapsed < expected THEN expected - elapsed ELSE 0]

PaceInit ==
    /\ Start(Run(ScBasic, 1))
    /\ \E s \in RateInputs :
          calc = [op |-> "pace", rateLimit |-> s, pc |-> "setup", bandwidth |-> 0,
                  call |-> [n |-> 0, failed |-> FALSE], out |-> <<>>]

\* the rate limit does not parse: DownloadFile returns the error
PaceRefused ==
    /\ calc.op = "pace" /\ calc.pc = "setup"
    /\ calc.rateLimit # <<>>
    /\ ParseRateLimit(calc.rateLimit).err
    /\ calc' = [calc EXCEPT !.pc = "refused"]
    /\ UNCHANGED <<scn, mirror, visited, currentDepth, sem, wg, tasks, files, dirs, gets, hist>>

\* no rate limit is given: the writer is the file
PaceUnlimited ==
    /\ calc.op = "pace" /\ calc.pc = "setup"
    /\ calc.rateLimit = <<>>
    /\ calc' = [calc EXCEPT !.pc = "unlimited"]
    /\ UNCHANGED <<scn, mirror, visited, currentDepth, sem, wg, tasks, files, dirs, gets, hist>>

\* writer = NewRateLimitedWriter(file, limit)
PaceLimited ==
    /\ calc.op = "pace" /\ calc.pc = "setup"
    /\ calc.rateLimit # <<>>
    /\ ~ParseRateLimit(calc.rateLimit).err
    /\ calc' = [calc EXCEPT !.pc = "limited", !.bandwidth = ParseRateLimit(calc.rateLimit).val]
    /\ UNCHANGED <<scn, mirror, visited, currentDepth, sem, wg, tasks, files, dirs, gets, hist>>

\* io.Copy calls Write on the rate-limited writer
PaceWrite ==
    /\ calc.op = "pace" /\ calc.pc = "limited"
    /\ \E n \in 0..MaxChunk : \E failed \in BOOLEAN : \E elapsed \in 0..1 :
          calc' = [calc EXCEPT !.pc = "written",
                               !.call = [n |-> n, failed |-> failed],
                               !.out = Write(n, failed, elapsed, calc.bandwidth)]
    /\ UNCHANGED <<scn, mirror, visited, currentDepth, sem, wg, tasks, files, dirs, gets, hist>>

PaceNext == PaceRefused \/ PaceUnlimited \/ PaceLimited \/ PaceWrite

PaceSpec == PaceInit /\ [][PaceNext]_vars

---------------------------------------------------------------------------
(* Properties *)

Returned == mirror.pc = "returned"
ReturnedNil == Returned /\ ~mirror.err

\* the resources the pages of rs refer to
RefsOf(rs) == UNION { {Resource(PageOf(r).refs[k].url) : k \in 1..Len(PageOf(r).refs)} : r \in rs }

\* the resources at most n link-hops from the seed
RECURSIVE Within(_)
Within(n) ==
    IF n = 0 THEN {Resource(scn.seed)}
    ELSE LET w == Within(n - 1) IN w \cup RefsOf(w)

Requested == BagToSet(gets)

Stored == {files[p].res : p \in DOMAIN files}

\* tasks holding the semaphore by the code's own account: past the acquire, before the deferred release
InFlight == BagCardinality([t \in {x \in Live : x.pc \notin {"acquire", "wgDone"}} |-> tasks[t]])

Holders == BagCardinality([t \in {x \in Live : x.held = 1} |-> tasks[t]])

\* C1: at most one HTTP GET is issued for a URL key (the URL without its fragment),
\* however many tasks are spawned for it and however they interleave
C1_OneGetPerKey == \A r \in Requested : CopiesIn(r, gets) <= 1

\* C2: a run never stops short of the return of Mirror: in every state Mirror has
\* returned or some goroutine can take a step
C2_MirrorReturns == Returned \/ mirror.pc = "refused" \/ ENABLED Next

\* C3: the WaitGroup counter is the number of unfinished tasks, so when wg.Wait has
\* returned every task spawned, directly or transitively, has finished
C3_WaitBarrier ==
    /\ mirror.pc = "wait" => wg = BagCardinality(tasks)
    /\ ReturnedNil => tasks = EmptyBag /\ hist.finished = hist.spawned

C3_Witness == ReturnedNil /\ scn.name = "basic" /\ hist.finished >= 3

\* C4: the tokens in the semaphore are those of the tasks that acquired one and have not
\* released it, and no task takes out a token it did not put in
C4_TokenAccounting ==
    /\ \A t \in Live : t.held \in {0, 1}
    /\ sem = Holders

\* C5: at most MaxConcurrent tasks are past the semaphore acquisition and not completed
C5_ConcurrencyBound == InFlight <= MaxConcurrent

\* C6: no GET is issued for a resource more than maxDepth link-hops from the seed
C6_DepthBound == \A r \in Requested : r \in Within(maxDepth)

Wanted ==
    { r \in RefsOf(Requested) \cap Within(maxDepth) :
        /\ r.host = baseHost
        /\ ~underJs(r.path) /\ ~isExcluded(r) /\ shouldSaveFile(r) /\ ~isAnalytics(r)
        /\ PageOf(r).status = 200 /\ PageOf(r).fault = "none" }

\* C8: when Mirror returns, every such resource has been fetched and stored
C8_Completeness == ReturnedNil => \A r \in Wanted : r \in Requested /\ r \in Stored

\* C9: after a failure on one resource the other tasks still run to completion and Mirror
\* returns nil: the run is never stuck short of that
C9_FailureIsolation ==
    hist.failed # {} => (ENABLED Next \/ ReturnedNil) /\ ~mirror.err

\* C10: when the output root cannot be created Mirror returns the error at once: no task
\* is spawned, no request is issued, nothing is marked visited
C10_RootDirFatal ==
    ~scn.mkdirOK =>
        /\ mirror.pc \in {"new", "mkdir", "returned"}
        /\ Returned => mirror.err
        /\ tasks = EmptyBag /\ hist.spawned = 0 /\ wg = 0
        /\ gets = EmptyBag
        /\ visited = {}

C10_Witness == ~scn.mkdirOK /\ Returned /\ mirror.err

\* C11: a seed that does not parse is fatal: GetMirrorParams refuses, the run reports
\* failure and nothing is spawned, fetched or written; a reference of a page that does
\* not parse is never queued, and the run it occurs in still returns nil
C11_ParseFailures ==
    /\ urlParseFails(scn.seed) =>
          /\ mirror.pc \in {"new", "refused"}
          /\ mirror.pc = "refused" => mirror.err
          /\ tasks = EmptyBag /\ hist.spawned = 0 /\ gets = EmptyBag /\ files = <<>>
    /\ \A t \in Live : ~urlParseFails(t.url)
    /\ \A r \in Requested : ~urlParseFails(r)
    /\ (Returned /\ scn.mkdirOK) => ~mirror.err

C11_Witness == urlParseFails(scn.seed) /\ mirror.pc = "refused" /\ mirror.err

\* the page holding the malformed reference has been processed to its end
C11_BadRefSeen ==
    /\ ReturnedNil
    /\ \E r \in Requested : \E k \in 1..Len(PageOf(r).refs) : urlParseFails(PageOf(r).refs[k].url)

Written_ == BagToSet(hist.writes)

\* the filename or the extension of r equals, case-insensitively, an entry of RejectTypes
matchesReject(r) ==
    \E rej \in scn.RejectTypes :
        \/ LowerSeg(fileName(r.path)) = LowerSeg(rej)
        \/ r.path # <<>> /\ Len(Last(r.path)) >= 2 /\ <<Lower(Last(Last(r.path)))>> = LowerSeg(rej)

\* the references of r the crawl is to follow: they parse, are on the seed's host and no
\* filter of the dispatcher matches them
Children(r) ==
    { PageOf(r).refs[k].url : k \in { j \in 1..Len(PageOf(r).refs) :
          LET c == PageOf(r).refs[j] IN
          /\ ~urlParseFails(c.url) /\ c.url.host = baseHost
          /\ ~(c.kind = "href" /\ isAnalytics(c.url)) } }

\* C12: a resource whose filename or extension matches an entry of RejectTypes, whatever
\* the case, is never written, neither raw nor rewritten; the same-host references of its
\* HTML or CSS are dispatched all the same
C12_RejectFilter ==
    /\ \A w \in Written_ : ~matchesReject(w.body.res)
    /\ \A p \in DOMAIN files : ~matchesReject(files[p].res)
    /\ ReturnedNil =>
          \A r \in Requested :
              (matchesReject(r) /\ PageOf(r).status = 200 /\ PageOf(r).fault = "none"
                 /\ PageOf(r).ctype \in {"html", "css"})
              => \A c \in Children(r) : urlKey(c) \in visited

C12_Witness ==
    /\ ReturnedNil
    /\ \E r \in Requested :
          /\ matchesReject(r) /\ r \in hist.parents
          /\ \E c \in Children(r) : Resource(c) \in Stored

LowerPath(p) == [k \in 1..Len(p) |-> LowerSeg(p[k])]

\* the path of u starts, whatever the case, with an entry of ExcludePaths
excludedFold(u) ==
    \E ex \in scn.ExcludePaths :
        PathHasPrefix(LowerPath(TrimSlashes(u.path)), LowerPath(TrimSlashes(ex)))

\* C13: no GET is issued and no file is written for a URL whose path starts with an entry of
\* ExcludePaths, the comparison ignoring case and leading and trailing slashes
C13_ExcludeFilter ==
    /\ \A r \in Requested : ~excludedFold(r)
    /\ \A w \in Written_ : ~excludedFold(w.body.res)

\* the same with the comparison the code makes, which respects case
C13_ExactCaseExcluded ==
    /\ \A r \in Requested : ~isExcluded(r)
    /\ \A w \in Written_ : ~isExcluded(w.body.res)

\* the path of u begins with /js/
fallsUnderJs(u) == Len(u.path) >= 2 /\ u.path[1] = <<"js">>

\* C14: a URL under /js/ is skipped entirely: no GET is issued for it, nothing is written
\* for it and no child is discovered through it
C14_JsExclusion ==
    /\ \A r \in Requested : ~fallsUnderJs(r)
    /\ \A w \in Written_ : ~fallsUnderJs(w.body.res)
    /\ \A r \in hist.parents : ~fallsUnderJs(r)
    /\ \A t \in Live : fallsUnderJs(t.url) => t.pc \notin {"save", "links", "drain"}

C14_Witness ==
    /\ ReturnedNil
    /\ \E k \in visited : fallsUnderJs(k) /\ PageOf(k).status = 200

WritesOf(r) == {w \in Written_ : w.body.res = r}

\* C15: a response whose status is not 2xx fails that resource only: nothing is written
\* for it, no child is dispatched from it and it is requested once; a response whose
\* status is 2xx is not refused for its status
C15_StatusHandling ==
    /\ \A r \in Requested :
          PageOf(r).status \notin 200..299 =>
              WritesOf(r) = {} /\ r \notin hist.parents /\ CopiesIn(r, gets) = 1
    /\ \A r \in hist.refused : PageOf(r).status \notin 200..299

\* the first half alone
C15_Non2xxSkipped ==
    \A r \in Requested :
        PageOf(r).status \notin 200..299 =>
            WritesOf(r) = {} /\ r \notin hist.parents /\ CopiesIn(r, gets) = 1

\* C16: references are extracted and rewritten only in text/html and text/css responses:
\* a response of another type is written once, byte for byte, and no child is dispatched
\* from it
C16_ContentTypeDispatch ==
    \A r \in Requested :
        PageOf(r).ctype = "other" =>
            /\ r \notin hist.parents
            /\ \A w \in WritesOf(r) : w.body = Content(r, "raw") /\ CopiesIn(w, hist.writes) = 1
            /\ Cardinality(WritesOf(r)) <= 1

\* the same without the count of the writes
C16_RawAndChildless ==
    \A r \in Requested :
        PageOf(r).ctype = "other" =>
            /\ r \notin hist.parents
            /\ \A w \in WritesOf(r) : w.body = Content(r, "raw")

\* the rewritten HTML documents written so far
RewrittenHtml == {w \in Written_ : w.body.form = "rewritten" /\ PageOf(w.body.res).ctype = "html"}

\* val is what the claim asks of an attribute of page that resolves to target: with
\* ConvertLinks the relative path that leads from the directory of the page's local path to
\* the target's local path, without it the string of the absolute URL
Converted(page, target, val) ==
    IF scn.ConvertLinks
    THEN /\ val.as = "relative"
         /\ Join(Front(convertToLocalPath(page)) \o val.path) = convertToLocalPath(target)
    ELSE val = Absolute(target)

ConvertedButAnalytics(w) ==
    LET refs == PageOf(w.body.res).refs IN
    \A k \in 1..Len(refs) :
        (refs[k].kind = "href" /\ ~urlParseFails(refs[k].url) /\ refs[k].url.host = baseHost)
        => IF isAnalytics(refs[k].url)
           THEN ValsOf(w.body)[k] = Written(refs[k])
           ELSE Converted(w.body.res, refs[k].url, ValsOf(w.body)[k])

C17_AbsoluteSeen ==
    /\ ~scn.ConvertLinks
    /\ \E w \in RewrittenHtml : \E k \in 1..Len(ValsOf(w.body)) : ValsOf(w.body)[k].as = "absolute"

\* C18: a reference whose resolved host is not baseHost (href/src, inline style, <style>,
\* CSS file) stands in every stored body as it was served, and no task is spawned for it
C18_CrossOriginUntouched ==
    /\ \A w \in Written_ :
          LET refs == PageOf(w.body.res).refs IN
          \A k \in 1..Len(refs) :
              (~urlParseFails(refs[k].url) /\ refs[k].url.host # baseHost)
              => ValsOf(w.body)[k] = Written(refs[k])
    /\ \A t \in Live : t.url.host = baseHost

C18_Witness ==
    /\ ReturnedNil
    /\ \E w \in Written_ :
          /\ w.body.form = "rewritten" /\ PageOf(w.body.res).ctype = "css"
          /\ \E k \in 1..Len(ValsOf(w.body)) : PageOf(w.body.res).refs[k].url.host # baseHost
    /\ \E w \in RewrittenHtml : \E k \in 1..Len(ValsOf(w.body)) :
          /\ PageOf(w.body.res).refs[k].kind = "style"
          /\ PageOf(w.body.res).refs[k].url.host # baseHost

\* C19: two bodies written to one output path belong to one canonical URL key
C19_CollisionFree ==
    \A w1, w2 \in Written_ :
        w1.path = w2.path => urlKey(w1.body.res) = urlKey(w2.body.res)

\* the elements of a URL path that name something, in order
RECURSIVE Named(_)
Named(path) ==
    IF path = <<>> THEN <<>>
    ELSE IF Head(path) = E THEN Named(Tail(path))
    ELSE <<Head(path)>> \o Named(Tail(path))

Digits == {"123", "42", "2024", "0"}

\* the local path the three rules give, read as they are stated
LocalPathByRule(u) ==
    LET last == IF u.path = <<>> THEN E ELSE Last(u.path)
        segs == Named(u.path)
        dynamic == \E k \in 1..Len(segs) :
                       /\ Len(segs[k]) = 1
                       /\ segs[k][1] \in Digits \/ Lower(segs[k][1]) \in dynamicParts
    IN IF Len(last) >= 2 THEN <<<<u.host>>>> \o segs
       ELSE IF dynamic THEN <<<<u.host>>, <<"pages">>>> \o segs \o <<IndexHtml>>
       ELSE <<<<u.host>>>> \o segs \o <<IndexHtml>>

\* C20: convertToLocalPath applies its rules in order: host/<path> for a last segment with
\* an extension, else host/pages/<path>/index.html for a path with a numeric or dynamic
\* segment, else host/<path>/index.html
C20_RulesInOrder ==
    calc.op = "mapped" => calc.out = LocalPathByRule(calc.url)

\* rule 1 and rule 2 alone
C20_RulesOneAndTwo ==
    (/\ calc.op = "mapped"
     /\ \/ Last(LocalPathByRule(calc.url)) # IndexHtml
        \/ LocalPathByRule(calc.url)[2] = <<"pages">>)
    => calc.out = LocalPathByRule(calc.url)


\* C21: two runs over the same site with the same configuration leave the same files with the
\* same contents, whatever the interleaving of the tasks of each run
C21_RunDeterminism ==
    (calc.op = "first" /\ mirror.pc \in {"returned", "refused"})
        => (files = calc.tree /\ mirror.err = calc.err)


\* the names of a path hold no backslash
ForwardSlashesOnly(p) == \A k \in 1..Len(p) : p[k] = E \/ p[k][1] # BackslashName

\* C22: getRelativePath(base, ref) is ref's absolute URL when the hosts differ; otherwise it
\* holds forward slashes only and, joined to the directory of base's local path and cleaned,
\* gives ref's local path
C22_RelativePath ==
    calc.op = "related" =>
        IF calc.ref.host # calc.base.host
        THEN calc.out = Absolute(calc.ref)
        ELSE /\ calc.out.as = "relative"
             /\ ForwardSlashesOnly(calc.out.path)
             /\ Join(Front(convertToLocalPath(calc.base)) \o calc.out.path)
                    = convertToLocalPath(calc.ref)

\* C22, where TLC finds it to hold: a base that stays below its host directory and a
\* reference without a backslash in its names
C22_RelativePathPlain ==
    (/\ calc.op = "related"
     /\ calc.ref.host = calc.base.host
     /\ DotDot \notin {Front(convertToLocalPath(calc.base))[k] :
                          k \in 1..Len(Front(convertToLocalPath(calc.base)))}
     /\ ForwardSlashesOnly(calc.ref.path))
    => (/\ calc.out.as = "relative"
        /\ ForwardSlashesOnly(calc.out.path)
        /\ Join(Front(convertToLocalPath(calc.base)) \o calc.out.path)
               = convertToLocalPath(calc.ref))


\* a call of Write that has written its bytes and may return now
MayReturn(i) == calc.w[i].pc = "sleep" /\ calc.w[i].rest = 0

\* C23: a successful Write of n bytes on a writer of bandwidth R returns no earlier than n/R
\* seconds after its start, and writes totalling B bytes take at least B/R seconds, on each
\* writer whatever the other does
C23_RateLimit ==
    calc.op = "rate" =>
        /\ \A i \in Writers :
              MayReturn(i) => calc.w[i].since * calc.w[i].bandwidth >= calc.w[i].n * TicksPerSecond
        /\ calc.total.spent * calc.w["observed"].bandwidth >= calc.total.bytes * TicksPerSecond

\* C23, amended: a successful Write of n bytes returns no earlier than n/R seconds rounded
\* down to a whole tick after its start, and k writes totalling B bytes take more than B/R
\* seconds less k ticks, on each writer whatever the other does
C23_RateLimitRoundedDown ==
    calc.op = "rate" =>
        /\ \A i \in Writers :
              MayReturn(i) =>
                  (calc.w[i].since + 1) * calc.w[i].bandwidth > calc.w[i].n * TicksPerSecond
        /\ calc.total.writes > 0 =>
              (calc.total.spent + calc.total.writes) * calc.w["observed"].bandwidth
                  > calc.total.bytes * TicksPerSecond

\* two writes have returned on the observed writer in less than B/R seconds in all, while a
\* call on the other writer, of another bandwidth, is asleep
C23_Witness ==
    /\ calc.op = "rate"
    /\ calc.total.writes >= 2
    /\ calc.total.spent * calc.w["observed"].bandwidth < calc.total.bytes * TicksPerSecond
    /\ calc.w["other"].bandwidth # calc.w["observed"].bandwidth
    /\ calc.w["other"].pc = "sleep"
    /\ calc.w["other"].rest > 0


\* a number written in decimal digits, followed or not by k, K, m or M
WellFormedRate(s) ==
    /\ s # <<>>
    /\ \A k \in 1..(Len(s) - 1) : s[k] \in DigitChars
    /\ Last(s) \in DigitChars \cup {"k", "K", "m", "M"}
    /\ Last(s) \in DigitChars \/ Len(s) > 1

\* the bytes per second a well-formed rate stands for
RateValue(s) ==
    IF Last(s) \in {"k", "K"} THEN ScanDigits(Front(s), 0) * 1024
    ELSE IF Last(s) \in {"m", "M"} THEN ScanDigits(Front(s), 0) * 1024 * 1024
    ELSE ScanDigits(s, 0)

\* C24, the parser alone: utils.ParseRateLimit reads a well-formed rate as its number of
\* bytes per second, times 1024 for k and 1024*1024 for m in either case
C24_ParsedValue ==
    (calc.op = "flag" /\ calc.parsed # <<>> /\ WellFormedRate(calc.rateLimit))
        => calc.parsed = [err |-> FALSE, val |-> RateValue(calc.rateLimit)]

\* C24: the rate-limit string of a download stands for its number of bytes per second, times
\* 1024 for k and 1024*1024 for m in either case ("10k" is 10240, "5m" is 5242880, "100" is
\* 100), and the RateLimitedWriter is created with that bandwidth
C24_RateLimitFlag ==
    (calc.op = "flag" /\ calc.writer # <<>> /\ WellFormedRate(calc.rateLimit))
        => /\ calc.writer = [kind |-> "limited", bandwidth |-> RateValue(calc.rateLimit)]
           /\ calc.rateLimit = <<"1", "0", "k">> => calc.writer.bandwidth = 10240
           /\ calc.rateLimit = <<"5", "m">> => calc.writer.bandwidth = 5242880
           /\ calc.rateLimit = <<"1", "0", "0">> => calc.writer.bandwidth = 100


\* C26: an update of a resource's progress is drawn unless less than the interval has passed
\* since that resource's bar was last drawn and other resources are in flight as well
C26_RedrawThrottle ==
    [][\A u \in DlUrls :
          (/\ calc.op = "om"
           /\ calc'.last.op = "update"
           /\ calc'.last.url = u
           /\ u \in DOMAIN calc.om.progressBars
           /\ ~(/\ calc.now - calc.om.progressBars[u].drawn < RedrawInterval
                /\ Cardinality(DOMAIN calc.om.progressBars) # 1))
          => calc'.last.drew]_vars

\* C27: whatever calls were made, at most maxLogLines log lines are held, and they are the
\* messages logged last, in the order they were logged
C27_LogRing ==
    calc.op = "om" =>
        LET kept == IF calc.logged > maxLogLines THEN maxLogLines ELSE calc.logged IN
        /\ Len(calc.om.logMessages) <= maxLogLines
        /\ calc.om.logMessages = [k \in 1..kept |-> calc.logged - kept + k]

\* more messages than maxLogLines were logged while two downloads were registered and updated
C27_Witness ==
    /\ calc.op = "om"
    /\ calc.logged > maxLogLines + 1
    /\ Len(calc.om.logMessages) = maxLogLines
    /\ Head(calc.om.logMessages) = calc.logged - maxLogLines + 1
    /\ DOMAIN calc.om.progressBars = DlUrls
    /\ calc.last.op = "update"


\* the download of urls[i] is between its RegisterDownload and the return of DownloadFile
DlInFlight(i) == calc.worker[i].pc \in {"copy", "complete"}

\* DownloadFile has returned for urls[i]
DlEnded(i) == calc.worker[i].pc \in {"ok", "done", "failed", "error", "gone"}

\* C25: a URL has its entry in the progress map from the RegisterDownload of its download
\* until that download ends, in success or in failure, and no longer; once
\* DownloadMultipleFiles has returned the map is empty
C25_ProgressLifecycle ==
    calc.op = "dl" =>
        /\ \A i \in 1..Len(calc.urls) :
              /\ DlInFlight(i) => calc.urls[i].url \in DOMAIN calc.om.progressBars
              /\ (/\ DlEnded(i)
                  /\ \A j \in 1..Len(calc.urls) : DlInFlight(j) => calc.urls[j].url # calc.urls[i].url)
                 => calc.urls[i].url \notin DOMAIN calc.om.progressBars
        /\ calc.main.pc = "returned" => calc.om.progressBars = <<>>

\* C25 without the downloads that end in an error of io.Copy and without a URL listed twice
C25_ProgressLifecycleOfOthers ==
    (/\ calc.op = "dl"
     /\ \A i \in 1..Len(calc.urls) : calc.urls[i].fault # "copy"
     /\ \A i, j \in 1..Len(calc.urls) : calc.urls[i].url = calc.urls[j].url => i = j)
    => C25_ProgressLifecycle

\* C28: DownloadMultipleFiles starts a download for every URL of the list and returns, with
\* its report logged, only after each of them has finished; the downloads nothing goes wrong
\* with have completed then, whatever became of the others
C28_AllDownloadsJoined ==
    (calc.op = "dl" /\ calc.main.pc = "returned") =>
        /\ \A i \in 1..Len(calc.urls) :
              /\ calc.worker[i].pc \in {"done", "gone"}
              /\ calc.urls[i].fault = "none" => calc.worker[i].pc = "done"
        /\ Last(calc.om.logMessages) = Msg("All downloads completed", "")

\* the run has returned after a list of two, one download failed in io.Copy and one complete
C28_Witness ==
    /\ calc.op = "dl"
    /\ calc.main.pc = "returned"
    /\ Len(calc.urls) = 2
    /\ calc.worker[1].pc = "gone"
    /\ calc.worker[2].pc = "done"


\* processNode has been through every element of the document
Processed == calc.op = "node" /\ calc.n > Len(calc.doc)

NotIntegrity(a) == a.Key # "integrity"

\* C29: once a page is processed no element has an integrity attribute left, its other
\* attributes are all there in the order the parser gave them, and each of them has been
\* given to the rewriter
C29_IntegrityStripped ==
    Processed =>
        \A e \in 1..Len(calc.doc) :
            /\ \A k \in 1..Len(calc.doc[e]) : calc.doc[e][k].Key # "integrity"
            /\ calc.doc[e] = SelectSeq(calc.parsed[e], NotIntegrity)
            /\ SelectSeq(calc.seen[e], NotIntegrity) = SelectSeq(calc.parsed[e], NotIntegrity)

\* a processed element that had two integrity attributes in a row before another attribute,
\* below an element that ended in one
C29_Witness ==
    /\ Processed
    /\ Len(calc.parsed) = 2
    /\ Len(calc.parsed[1]) >= 2
    /\ calc.parsed[1][Len(calc.parsed[1])].Key = "integrity"
    /\ Len(calc.parsed[2]) >= 3
    /\ calc.parsed[2][1].Key = "integrity"
    /\ calc.parsed[2][2].Key = "integrity"
    /\ calc.parsed[2][3].Key = "href"


\* the pages of the site that html.Parse rejects
Unparsable == {p.res : p \in {q \in scn.pages : q.ctype = "html" /\ q.fault = "parse"}}

\* C30: the body of a fetched page that is not rejected and cannot be parsed is stored as
\* served at the page's local path, is never rewritten, and no child is dispatched from it
C30_ParseFailure ==
    \A r \in Unparsable :
        /\ \A w \in WritesOf(r) :
              /\ w.body.form = "raw"
              /\ w.path = Join(convertToLocalPath(r))
        /\ r \notin hist.parents
        /\ (r \in hist.failed /\ ~matchesReject(r))
              => /\ Join(convertToLocalPath(r)) \in DOMAIN files
                 /\ files[Join(convertToLocalPath(r))] = Content(r, "raw")

\* the run is over, the unparsable page was fetched and stored raw, and it held references
C30_Witness ==
    /\ Returned
    /\ \E r \in Unparsable :
          /\ PageOf(r).refs # <<>>
          /\ r \in Requested
          /\ r \in hist.failed
          /\ WritesOf(r) # {}
          /\ RefsOf({r}) \cap Requested = {}


\* the tasks whose next step is the HTTP request
AtRequest == {t \in Live : t.pc = "fetch" /\ ~skipsRequest(t.url)}

\* C31: when a task issues its HTTP request currentDepth is not greater than maxDepth,
\* under every interleaving
C31_DepthAtRequest == AtRequest # {} => currentDepth <= maxDepth

\* what the gate does ensure: the counter, which counts the requesting task itself, is
\* not greater than maxDepth + 1 at the request
C31_DepthAtRequestCountingItself == AtRequest # {} => currentDepth <= maxDepth + 1


\* the tasks that passed the depth gate and have not run their deferred decrement
PastGate ==
    BagCardinality([t \in {x \in Live : x.pc \in {"fetch", "save", "links", "drain", "leaveDepth"}}
                       |-> tasks[t]])

\* C32: currentDepth is never negative; in the concurrent mirror it is the number of tasks
\* that passed the depth gate and have not completed, and 0 when Mirror has returned; in the
\* sequential mirror every call of ProcessUrl returns with currentDepth as it was at entry
C32_DepthBalance ==
    /\ currentDepth >= 0
    /\ currentDepth = PastGate
    /\ Returned => currentDepth = 0
    /\ calc.op = "seq" =>
          /\ calc.currentDepth >= 0
          /\ (calc.pc = "running" /\ Top.pc = "ret") => calc.currentDepth = Top.entry
          /\ calc.pc = "returned" => calc.currentDepth = 0

\* the concurrent mirror has returned after tasks ended on failure paths and on the normal one
C32_Witness ==
    /\ ReturnedNil
    /\ hist.failed # {}
    /\ hist.finished >= 3
    /\ hist.writes # EmptyBag


\* the tasks that hold a token and wait at the depth gate for a resource within maxDepth hops
AtGate == {t \in Live : t.pc = "depth" /\ Resource(t.url) \in Within(maxDepth)}

\* C33: the budget alone limits the fetches in flight, whatever maxDepth is: while fewer than
\* MaxConcurrent fetches are in flight, a task holding a token for a new URL is admitted to
\* its fetch, so that MaxConcurrent fetches at once are reachable
C33_BudgetAloneLimits ==
    \A t \in AtGate : PastGate < MaxConcurrent => ~depthExceeded(currentDepth)

\* what limits the fetches in flight as well: the depth gate admits maxDepth + 1 tasks, so with
\* a budget above that the budget is never reached
C33_GateLimitsToo == PastGate <= maxDepth + 1


\* the same-host resources the fetched pages refer to
Discovered == {r \in RefsOf(Requested) : r.host = baseHost}

\* C34: the visited key of a URL is the URL without its fragment, query included, so two
\* URLs that differ in their query string have different keys and each of them is fetched
C34_QueryInKey ==
    /\ \A r \in Discovered : urlKey(r) = Resource(r)
    /\ \A r1, r2 \in Discovered : r1 # r2 => urlKey(r1) # urlKey(r2)
    /\ ReturnedNil => \A r \in Discovered : r.query # "" => r \in Requested

\* the part of C34 on behaviour alone: every discovered URL with a query string is fetched
C34_EachQueryFetched ==
    ReturnedNil => \A r \in Discovered : r.query # "" => r \in Requested


\* a url(...) of the served text that names a file on the seed's host, in one of the three forms
SameHostUrl(tok) ==
    /\ tok.kind = "url"
    /\ tok.open = tok.close
    /\ ~urlParseFails(tok.val.url)
    /\ tok.val.url.host = baseHost

\* C35: with ConvertLinks every same-host url(...), single-quoted, double-quoted or bare, is
\* replaced by a url(...) of the same quoting form that holds the relative local path, and
\* nothing else of the text changes; without ConvertLinks the text is unchanged
C35_CssRewriting ==
    calc.op = "rewritten" =>
        /\ Len(calc.cssContent) = Len(calc.orig)
        /\ \A k \in 1..Len(calc.orig) :
              IF scn.ConvertLinks /\ SameHostUrl(calc.orig[k])
              THEN calc.cssContent[k] =
                       UrlTok(calc.orig[k].open, getRelativePath(calc.base, calc.orig[k].val.url),
                              calc.orig[k].close)
              ELSE calc.cssContent[k] = calc.orig[k]

\* the same for the quoted forms alone
C35_QuotedCssRewriting ==
    (calc.op = "rewritten" /\ \A k \in 1..Len(calc.orig) : calc.orig[k].kind = "url" => calc.orig[k].open # "")
        => C35_CssRewriting


\* the path is empty, is the root, ends in "/", or its last segment has no extension
DirectoryLike(path) ==
    path = <<>> \/ Last(path) = E \/ ~hasFileExtension(Last(path))

\* p is a directory on the way to q
ProperPrefix(p, q) == Len(p) < Len(q) /\ SubSeq(q, 1, Len(p)) = p

\* C36: for a URL whose path is empty, is the root, ends in "/" or has a last segment without
\* an extension, convertToLocalPath returns a path that ends in index.html; so every path it
\* returns names a file, and never a directory that a URL below it on the site needs
C36_IndexHtmlForDirectories ==
    calc.op = "mapped" =>
        /\ DirectoryLike(calc.url.path) => Last(calc.out) = IndexHtml
        /\ hasFileExtension(Last(calc.out))
        /\ \A seg \in PathSegs \ {E} :
              ~ProperPrefix(calc.out, convertToLocalPath(Ex(Append(calc.url.path, seg))))

\* the first part of C36 apart from the paths whose last name holds a dot and is followed by "/"
C36_IndexHtmlForPlainDirectories ==
    (/\ calc.op = "mapped"
     /\ DirectoryLike(calc.url.path)
     /\ Named(calc.url.path) # <<>> => ~hasFileExtension(Last(Named(calc.url.path))))
    => Last(calc.out) = IndexHtml


\* the stored file at path p is a rewritten document, and its attribute k was rewritten to a
\* relative local path
RewrittenLink(p, k) ==
    /\ files[p].form = "rewritten"
    /\ PageOf(files[p].res).ctype = "html"
    /\ PageOf(files[p].res).refs[k].kind = "href"
    /\ ValsOf(files[p])[k].as = "relative"

\* the file the relative path val leads to from the document at path p
LinkTarget(p, val) == Join(Front(p) \o val.path)

\* C37: when Mirror returns with ConvertLinks true, every href/src value rewritten to a
\* relative local path in a stored page leads to a file of the mirrored tree that holds
\* the target
C37_Navigable ==
    (ReturnedNil /\ scn.ConvertLinks) =>
        \A p \in DOMAIN files : \A k \in 1..Len(PageOf(files[p].res).refs) :
            RewrittenLink(p, k) =>
                LET target == LinkTarget(p, ValsOf(files[p])[k]) IN
                /\ target \in DOMAIN files
                /\ files[target].res = Resource(PageOf(files[p].res).refs[k].url)

\* the same on a site all of whose same-host references are fetched and stored
C37_NavigableWhenAllStored ==
    scn.name = "basic" => C37_Navigable


\* C38: a call of UpdateProgress for a URL that has no entry in the progress map, never
\* registered or already completed, leaves the progress map, the log lines and the display
\* as they were
C38_UpdateWithoutEntry ==
    [][(calc.op = "om" /\ calc'.last.op = "update"
           /\ calc'.last.url \notin DOMAIN calc.om.progressBars)
       => /\ calc'.om.progressBars = calc.om.progressBars
          /\ calc'.om.logMessages = calc.om.logMessages
          /\ ~calc'.last.drew]_vars

\* an update has just been made for a URL without an entry while another download has its
\* bar and lines are logged
C38_Witness ==
    /\ calc.op = "om"
    /\ calc.last.op = "update"
    /\ calc.last.url \notin DOMAIN calc.om.progressBars
    /\ DOMAIN calc.om.progressBars # {}
    /\ calc.om.logMessages # <<>>


\* the downloads that have called RegisterDownload and have not called CompleteDownload
DlRegistered ==
    {i \in 1..Len(calc.urls) :
        \/ calc.worker[i].pc \in {"copy", "complete"}
        \/ calc.worker[i].pc \in {"failed", "error", "gone"} /\ calc.urls[i].fault = "copy"}

\* C39: the progress map has as many entries as there are downloads that have registered and
\* not yet completed, under every interleaving, a URL listed more than once included
C39_EntryPerDownload ==
    calc.op = "dl" => Cardinality(DOMAIN calc.om.progressBars) = Cardinality(DlRegistered)

\* the same for the lists that name no URL twice
C39_EntryPerDistinctDownload ==
    (calc.op = "dl" /\ \A i, j \in 1..Len(calc.urls) : calc.urls[i].url = calc.urls[j].url => i = j)
    => C39_EntryPerDownload


\* C40: for every bandwidth ParseRateLimit returns without error, 0 and negative values
\* included, Write returns normally, never stopped by a division by zero, and after an error
\* of the underlying writer it returns that error and the byte count at once, without sleeping
C40_WriteReturns ==
    (calc.op = "pace" /\ calc.pc = "written") =>
        /\ calc.out.kind = "returned"
        /\ calc.out.n = calc.call.n
        /\ calc.call.failed => calc.out.err /\ calc.out.slept = 0

\* the same for the bandwidths other than 0
C40_WriteReturnsButZero ==
    (calc.op = "pace" /\ calc.pc = "written" /\ calc.bandwidth # 0) => C40_WriteReturns

====
